---- MODULE Spec2Model ----
(***************************************************************************)
(* A model of las-kml-to-stl: the grid aggregator that bins LAS samples    *)
(* into a height map (height_map.rs), the batch ingestion that drives it   *)
(* (las_resampler.rs, utils.rs, utm_bounds.rs), and the mesh generator     *)
(* (stl.rs) with the boolean mask it reads (mask.rs).                      *)
(*                                                                         *)
(* Numbers.  Planar coordinates and tick sizes are kept exact: a tick is   *)
(* the rational num/den.  Heights are f64 values that round: the model     *)
(* keeps a binary floating-point format with MantBits significant bits     *)
(* whose smallest step is 1 (f64 has 53 bits).  u16 and usize keep their   *)
(* overflow behaviour: a debug build panics, a release build wraps, and    *)
(* the variable build says which build runs.                               *)
(***************************************************************************)
EXTENDS Integers, Sequences, FiniteSets, TLC

VARIABLES
    build,      \* "debug" | "release": overflow checks on or off
    outcome,    \* "running" | "ok" | "panic" | the name of a LasToStlError variant
    hmi,        \* the HeightMapIntermediate
    hm,         \* the HeightMap (NoHeightMap until one exists)
    npoints,    \* samples handed to the aggregator so far
    last_point, \* history: the sample handed to the aggregator last (NoPoint at first)
    zs,         \* history: per aggregate cell, the bag of heights it accumulated
    inexact,    \* history: per aggregate cell, whether a partial sum of its heights is no f64
    pre,        \* history: per aggregate cell, samples (of height 0) it held at the start
    pc,         \* where glob_get_height_map stands
    res_in,     \* its arguments <<resolution_x_in, resolution_y_in>>
    paths,      \* the path_vec get_paths returned: per path, whether a LAS reader
                \* opens it, and the bounds its header declares
    file_idx,   \* the path the running loop is at (1-based)
    global_bounds,  \* the accumulator of get_bounds_from_las_paths, then `bounds`
    nread,      \* point records the readers have yielded so far
    call,       \* the call made, with its arguments (NoCall before it)
    mask,       \* the Mask the call was given or was made on (NoMask if none)
    file,       \* what is stored at the path of the call (NoFile if nothing)
    log_errors, \* error! lines the call logged
    point_deltas,   \* the Vec get_point_deltas_within_radius returned
    ret             \* what HeightMap::get_height returned, with the index it read

aggVars == <<hmi, hm, npoints, last_point, zs, inexact, pre>>
globVars == <<pc, res_in, paths, file_idx, global_bounds, nread>>
stlVars == <<call, mask, file, log_errors>>
maskVars == <<point_deltas, ret>>
vars == <<build, outcome, aggVars, globVars, stlVars, maskVars>>

-----------------------------------------------------------------------------
(* Bounds of the model *)

\* significant bits of the floating-point format heights are kept in
MantBits == 3
\* samples fed to one aggregator
MaxSamples == 3
\* entries a glob pattern yields
MaxFiles == 2
\* point records the readers of one glob_get_height_map call yield
MaxGlobPoints == 2
\* x_res and y_res of the grids whose masks are enumerated
MaxRes == 3
\* cells of those grids
MaxCells == 9
\* unselected cells of the enumerated masks that are not one block
MaxFalse == 2

-----------------------------------------------------------------------------
(* f64 arithmetic on heights *)

RECURSIVE Pow2(_)
Pow2(n) == IF n = 0 THEN 1 ELSE 2 * Pow2(n - 1)

Abs(v) == IF v < 0 THEN -v ELSE v

\* the spacing of representable values around magnitude a
RECURSIVE Ulp(_)
Ulp(a) == IF a < Pow2(MantBits) THEN 1 ELSE 2 * Ulp(a \div 2)

\* a/n (a >= 0, n > 0) rounded to the nearest representable value, ties to even
RoundQuot(a, n) ==
    LET u  == Ulp(a \div n)
        q  == a \div (n * u)
        r  == a % (n * u)
        up == (2 * r > n * u) \/ (2 * r = n * u /\ q % 2 = 1)
    IN  (IF up THEN q + 1 ELSE q) * u

F64Round(v) == IF v < 0 THEN -RoundQuot(-v, 1) ELSE RoundQuot(v, 1)

\* a + b on f64
F64Add(a, b) == F64Round(a + b)

\* a / (n as f64) on f64, n an unsigned integer > 0 (every u16 is exact as f64)
F64Div(a, n) == IF a < 0 THEN -RoundQuot(-a, n) ELSE RoundQuot(a, n)

\* u16::MAX
U16Max == 65535

-----------------------------------------------------------------------------
(* height_map.rs: PointAggregate *)

Panicked == [panic |-> TRUE]
Fine(v) == [panic |-> FALSE, val |-> v]

PointAggregateDefault == [point_sum |-> 0, num_points |-> 0]

\* `num_points += 1` on u16
IncU16(n, bld) ==
    IF n < U16Max THEN Fine(n + 1)
    ELSE IF bld = "debug" THEN Panicked ELSE Fine(0)

\* a faulty variant: the sum is overwritten
add_sample_overwrite(agg, new_height, bld) ==
    LET c == IncU16(agg.num_points, bld)
    IN  IF c.panic THEN Panicked
        ELSE Fine([point_sum |-> new_height, num_points |-> c.val])

add_sample(agg, new_height, bld) ==
    LET c == IncU16(agg.num_points, bld)
    IN  IF c.panic THEN Panicked
        ELSE Fine([point_sum |-> F64Add(agg.point_sum, new_height), num_points |-> c.val])

\* a faulty variant: the sum is not divided
get_average_or_default_nodiv(agg, default) ==
    IF agg.num_points = 0 THEN default ELSE agg.point_sum

get_average_or_default(agg, default) ==
    IF agg.num_points = 0 THEN default ELSE F64Div(agg.point_sum, agg.num_points)

-----------------------------------------------------------------------------
(* utm_bounds.rs: UtmBoundingBox *)

\* f64::MAX, standing above every coordinate of the model
F64Max == 1000000

f64_min(a, b) == IF a > b THEN b ELSE a
f64_max(a, b) == IF a < b THEN b ELSE a

UtmBoundingBoxDefault ==
    [min_x |-> F64Max, max_x |-> -F64Max,
     min_y |-> F64Max, max_y |-> -F64Max,
     min_z |-> F64Max, max_z |-> -F64Max]

\* UtmBoundingBox::add
BoundsAdd(self, other) ==
    [min_x |-> f64_min(self.min_x, other.min_x),
     max_x |-> f64_max(self.max_x, other.max_x),
     min_y |-> f64_min(self.min_y, other.min_y),
     max_y |-> f64_max(self.max_y, other.max_y),
     min_z |-> f64_min(self.min_z, other.min_z),
     max_z |-> f64_max(self.max_z, other.max_z)]

x_range(b) == b.max_x - b.min_x
y_range(b) == b.max_y - b.min_y

-----------------------------------------------------------------------------
(* height_map.rs: HeightMapIntermediate *)

\* range / (res - 1) as f64, kept as the exact rational num/den
Tick(range, res) == [num |-> range, den |-> res - 1]

\* `(d / tick) as usize`: the cast truncates and saturates, so a negative
\* quotient is 0; an infinite tick (den = 0) gives quotient 0
ToUsize(d, tick) ==
    IF d < 0 \/ tick.den = 0 THEN 0 ELSE (d * tick.den) \div tick.num

HeightMapIntermediateNew(x_res, y_res, utm_bounds) ==
    [data     |-> [i \in 1..(x_res * y_res) |-> PointAggregateDefault],
     x_res    |-> x_res,
     y_res    |-> y_res,
     x_tick   |-> Tick(x_range(utm_bounds), x_res),
     y_tick   |-> Tick(y_range(utm_bounds), y_res),
     x_offset |-> utm_bounds.min_x,
     y_offset |-> utm_bounds.min_y,
     bounds   |-> utm_bounds]

CellX(h, p) == ToUsize(p.x - h.x_offset, h.x_tick)
CellY(h, p) == ToUsize(p.y - h.y_offset, h.y_tick)

\* `((self.y_res - y - 1)*self.x_res) + x` over the integers
inverted_y_index(h, x, y) == ((h.y_res - y - 1) * h.x_res) + x

\* `self.data[index].add_sample(new_height)`; index is 0-based, data is 1-based
AddAt(h, index, new_height, bld) ==
    IF index < 0 \/ index >= Len(h.data) THEN Panicked  \* index out of bounds
    ELSE LET r == add_sample(h.data[index + 1], new_height, bld)
         IN  IF r.panic THEN Panicked
             ELSE Fine([h EXCEPT !.data[index + 1] = r.val])

\* No bounds check.  y >= y_res makes `y_res - y - 1` underflow: a debug
\* build panics there; a release build wraps, and the wrapped index is in
\* range exactly when the integer index is.
add_point_unchecked(h, p, bld) ==
    LET x == CellX(h, p)
        y == CellY(h, p)
    IN  IF bld = "debug" /\ h.y_res - y - 1 < 0 THEN Panicked
        ELSE AddAt(h, inverted_y_index(h, x, y), p.z, bld)

add_point(h, p, bld) ==
    LET x == CellX(h, p)
        y == CellY(h, p)
    IN  IF x < h.x_res /\ y < h.y_res
        THEN AddAt(h, inverted_y_index(h, x, y), p.z, bld)
        ELSE Fine(h)

\* `(y*self.x_res) + x`: the row is not inverted here
get_index(h, p) == (CellY(h, p) * h.x_res) + CellX(h, p)

\* returns early only when `index > self.x_res * self.y_res`
add_point_by_index(h, height, index, bld) ==
    IF index > h.x_res * h.y_res THEN Fine(h)
    ELSE AddAt(h, index, height, bld)

-----------------------------------------------------------------------------
(* height_map.rs: HeightMap *)

NoHeightMap == [none |-> TRUE]

HeightMapFrom(h) ==
    [data  |-> [i \in 1..Len(h.data) |-> get_average_or_default(h.data[i], h.bounds.min_z)],
     x_res |-> h.x_res,
     y_res |-> h.y_res,
     bounds |-> h.bounds]

-----------------------------------------------------------------------------
(* The aggregator driven through its public methods:                       *)
(* HeightMapIntermediate::new, then add_point / add_point_unchecked calls, *)
(* then HeightMap::from.                                                   *)

Builds == {"debug", "release"}
NoCall == [none |-> TRUE]
NoMask == [none |-> TRUE]
NoFile == [none |-> TRUE]
NoRet == [none |-> TRUE]

NoPoint == [none |-> TRUE]

\* heights of the samples, ascending; the largest needs every significant bit
ZOrder == <<1, Pow2(MantBits)>>
ZValues == {ZOrder[k] : k \in 1..Len(ZOrder)}

\* a 3 x 2 grid over x in [10, 14], y in [20, 24]: x_tick = 2, y_tick = 4
AggBounds ==
    {[min_x |-> 10, max_x |-> 14, min_y |-> 20, max_y |-> 24, min_z |-> mz, max_z |-> 9] :
        mz \in {-1, 0}}
AggGrid == [x_res |-> 3, y_res |-> 2]
AggCells == 1..(AggGrid.x_res * AggGrid.y_res)

\* sample positions: inside three different cells, left of and below the
\* extent, and beyond it in x, in y and in both
AggXY ==
    {<<11, 21>>, <<13, 25>>, <<14, 20>>, <<9, 21>>, <<11, 19>>,
     <<16, 24>>, <<16, 21>>, <<11, 28>>, <<16, 28>>}
AggPoints == {[x |-> c[1], y |-> c[2], z |-> z] : c \in AggXY, z \in ZValues}

\* the cell (1-based) that may start with U16Max - 1 samples of height 0 in it
PreCell == AggGrid.x_res + 1
PreCounts == {0, U16Max - 1}

EmptyBag == [z \in ZValues |-> 0]
BagAdd(b, z) == [b EXCEPT ![z] = @ + 1]

RECURSIVE BagSize(_, _)
BagSize(b, k) == IF k = 0 THEN 0 ELSE b[ZOrder[k]] + BagSize(b, k - 1)

RECURSIVE ExactSumTo(_, _)
ExactSumTo(b, k) == IF k = 0 THEN 0 ELSE ZOrder[k] * b[ZOrder[k]] + ExactSumTo(b, k - 1)
\* the sum of a bag of heights over the integers
ExactSum(b) == ExactSumTo(b, Len(ZOrder))

RECURSIVE AddN(_, _, _)
AddN(s, z, n) == IF n = 0 THEN s ELSE AddN(F64Add(s, z), z, n - 1)
RECURSIVE CanonSumTo(_, _)
CanonSumTo(b, k) ==
    IF k = 0 THEN 0 ELSE AddN(CanonSumTo(b, k - 1), ZOrder[k], b[ZOrder[k]])
\* the f64 sum the aggregator reaches when the bag is fed in ascending order
CanonSum(b) == CanonSumTo(b, Len(ZOrder))

InitAgg ==
    /\ call = NoCall /\ mask = NoMask /\ file = NoFile /\ log_errors = 0
    /\ point_deltas = <<>> /\ ret = NoRet
    /\ build \in Builds
    /\ outcome = "running"
    /\ \E b \in AggBounds, n \in PreCounts :
          /\ hmi = [HeightMapIntermediateNew(AggGrid.x_res, AggGrid.y_res, b)
                       EXCEPT !.data[PreCell].num_points = n]
          /\ pre = [i \in AggCells |-> IF i = PreCell THEN n ELSE 0]
    /\ hm = NoHeightMap
    /\ npoints = 0
    /\ last_point = NoPoint
    /\ zs = [i \in AggCells |-> EmptyBag]
    /\ inexact = [i \in AggCells |-> FALSE]
    /\ pc = "none" /\ res_in = <<>> /\ paths = <<>> /\ file_idx = 0
    /\ global_bounds = UtmBoundingBoxDefault /\ nread = 0

\* what a call that returned left behind, and the history of it
Handed(r, p) ==
    /\ npoints' = npoints + 1
    /\ last_point' = p
    /\ IF r.panic
       THEN /\ outcome' = "panic"
            /\ UNCHANGED <<hmi, zs, inexact>>
       ELSE /\ outcome' = outcome
            /\ hmi' = r.val
            /\ zs' = [i \in DOMAIN zs |->
                        IF r.val.data[i] # hmi.data[i] THEN BagAdd(zs[i], p.z) ELSE zs[i]]
            /\ inexact' = [i \in DOMAIN inexact |->
                        \/ inexact[i]
                        \/ /\ r.val.data[i] # hmi.data[i]
                           /\ F64Round(ExactSum(zs[i]) + p.z) # ExactSum(zs[i]) + p.z]

AddPoint ==
    /\ UNCHANGED <<stlVars, maskVars>>
    /\ outcome = "running"
    /\ npoints < MaxSamples
    /\ \E p \in AggPoints : Handed(add_point(hmi, p, build), p)
    /\ UNCHANGED <<build, hm, pre, globVars>>

AddPointUnchecked ==
    /\ UNCHANGED <<stlVars, maskVars>>
    /\ outcome = "running"
    /\ npoints < MaxSamples
    /\ \E p \in AggPoints : Handed(add_point_unchecked(hmi, p, build), p)
    /\ UNCHANGED <<build, hm, pre, globVars>>

Finalize ==
    /\ UNCHANGED <<stlVars, maskVars>>
    /\ outcome = "running"
    /\ hm' = HeightMapFrom(hmi)
    /\ outcome' = "ok"
    /\ UNCHANGED <<build, hmi, npoints, last_point, zs, inexact, pre, globVars>>

\* the two-step path: get_index, then add_point_by_index with its result;
\* last_point keeps the index that was passed along
AddPointByIndex ==
    /\ UNCHANGED <<stlVars, maskVars>>
    /\ outcome = "running"
    /\ npoints < MaxSamples
    /\ \E p \in AggPoints :
          LET index == get_index(hmi, p)
          IN  Handed(add_point_by_index(hmi, p.z, index, build),
                     [x |-> p.x, y |-> p.y, z |-> p.z, index |-> index])
    /\ UNCHANGED <<build, hm, pre, globVars>>

NextAgg == AddPoint \/ AddPointUnchecked \/ AddPointByIndex \/ Finalize

SpecAgg == InitAgg /\ [][NextAgg]_vars

-----------------------------------------------------------------------------
(* utils.rs, utm_bounds.rs, las_resampler.rs: HeightMap::glob_get_height_map *)
(* taken one loop iteration at a time.  The file system is an input: what   *)
(* the glob yields, whether a LAS reader opens a path, what a header         *)
(* declares, what a reader yields.  A file can stop being readable between   *)
(* the pass that bounds the files and the pass that ingests them.            *)

NoHmi == [none |-> TRUE]

NoneUsize == [some |-> FALSE, v |-> 0]
SomeUsize(n) == [some |-> TRUE, v |-> n]

\* the resolution arguments of the calls modelled
ResInputs ==
    {<<SomeUsize(3), SomeUsize(2)>>, <<SomeUsize(3), NoneUsize>>,
     <<NoneUsize, SomeUsize(2)>>, <<NoneUsize, NoneUsize>>}

\* the bounds LAS headers declare
Headers ==
    {[min_x |-> 0, max_x |-> 4, min_y |-> 0, max_y |-> 4, min_z |-> 0, max_z |-> 9],
     [min_x |-> 2, max_x |-> 6, min_y |-> 0, max_y |-> 2, min_z |-> -1, max_z |-> 5]}

AnyHeader == CHOOSE h \in Headers : TRUE

\* what the glob iterator yields per entry: a GlobError, a path no LAS reader
\* opens, or a path of a LAS file with some header
GlobEntries ==
    {[ok |-> FALSE, readable |-> FALSE, header |-> AnyHeader],
     [ok |-> TRUE, readable |-> FALSE, header |-> AnyHeader]}
    \cup {[ok |-> TRUE, readable |-> TRUE, header |-> h] : h \in Headers}

SeqsUpTo(S, n) == UNION {[1..k -> S] : k \in 0..n}

\* glob(glob_pattern): a PatternError, or the entries
GlobResults ==
    {[err |-> TRUE, entries |-> <<>>]}
    \cup {[err |-> FALSE, entries |-> es] : es \in SeqsUpTo(GlobEntries, MaxFiles)}

\* what reader.points() yields per record: a point, or an error
GlobXY == {<<1, 1>>, <<3, 3>>, <<7, 1>>, <<7, 5>>, <<1, 9>>}
PointResults ==
    {[ok |-> FALSE, point |-> NoPoint]}
    \cup {[ok |-> TRUE, point |-> [x |-> c[1], y |-> c[2], z |-> 1]] : c \in GlobXY}

\* (n as f64 * (a / b)) as usize, for the positive ranges a, b of the model
DerivedResolution(n, a, b) == (n * a) \div b

InitGlob ==
    /\ call = NoCall /\ mask = NoMask /\ file = NoFile /\ log_errors = 0
    /\ point_deltas = <<>> /\ ret = NoRet
    /\ build \in Builds
    /\ outcome = "running"
    /\ hmi = NoHmi
    /\ hm = NoHeightMap
    /\ npoints = 0
    /\ last_point = NoPoint
    /\ zs = <<>> /\ inexact = <<>> /\ pre = <<>>
    /\ pc = "get_paths"
    /\ res_in \in ResInputs
    /\ paths = <<>>
    /\ file_idx = 0
    /\ global_bounds = UtmBoundingBoxDefault
    /\ nread = 0

\* utils::get_paths and the `?` on its result
GetPaths ==
    /\ UNCHANGED <<stlVars, maskVars>>
    /\ pc = "get_paths"
    /\ \E g \in GlobResults :
          LET oks == SelectSeq(g.entries, LAMBDA e : e.ok)
              path_vec == [i \in 1..Len(oks) |->
                              [readable |-> oks[i].readable, header |-> oks[i].header]]
          IN  IF g.err
              THEN /\ outcome' = "PatternError"
                   /\ pc' = "done"
                   /\ UNCHANGED <<paths, file_idx>>
              ELSE IF path_vec = <<>>
              THEN /\ outcome' = "NoValidGlobReturnsError"
                   /\ pc' = "done"
                   /\ UNCHANGED <<paths, file_idx>>
              ELSE /\ paths' = path_vec
                   /\ pc' = "bounds"
                   /\ file_idx' = 1
                   /\ UNCHANGED outcome
    /\ UNCHANGED <<build, aggVars, res_in, global_bounds, nread>>

\* one iteration of the loop of UtmBoundingBox::get_bounds_from_las_paths:
\* get_bounds_from_las(path)?, then add
BoundFile ==
    /\ UNCHANGED <<stlVars, maskVars>>
    /\ pc = "bounds"
    /\ file_idx <= Len(paths)
    /\ IF paths[file_idx].readable
       THEN /\ global_bounds' = BoundsAdd(global_bounds, paths[file_idx].header)
            /\ file_idx' = file_idx + 1
            /\ pc' = IF file_idx = Len(paths) THEN "resolution" ELSE "bounds"
            /\ UNCHANGED outcome
       ELSE /\ outcome' = "LasError"
            /\ pc' = "done"
            /\ UNCHANGED <<global_bounds, file_idx>>
    /\ UNCHANGED <<build, aggVars, res_in, paths, nread>>

\* the match on the resolution arguments, then HeightMapIntermediate::new
Resolution ==
    /\ UNCHANGED <<stlVars, maskVars>>
    /\ pc = "resolution"
    /\ LET xr == x_range(global_bounds)
           yr == y_range(global_bounds)
           rx == IF res_in[1].some THEN res_in[1].v
                 ELSE DerivedResolution(res_in[2].v, xr, yr)
           ry == IF res_in[2].some THEN res_in[2].v
                 ELSE DerivedResolution(res_in[1].v, yr, xr)
       IN  IF ~res_in[1].some /\ ~res_in[2].some
           THEN /\ outcome' = "NoResolutionError"
                /\ pc' = "done"
                /\ UNCHANGED <<hmi, file_idx>>
           ELSE /\ hmi' = HeightMapIntermediateNew(rx, ry, global_bounds)
                /\ pc' = "open"
                /\ file_idx' = 1
                /\ UNCHANGED outcome
    /\ UNCHANGED <<build, hm, npoints, last_point, zs, inexact, pre,
                   res_in, paths, global_bounds, nread>>

\* Reader::from_path in the ingestion loop: Ok enters the point loop, Err
\* warns and goes on to the next path
OpenFile ==
    /\ UNCHANGED <<stlVars, maskVars>>
    /\ pc = "open"
    /\ file_idx <= Len(paths)
    /\ IF paths[file_idx].readable
       THEN pc' = "points" /\ UNCHANGED file_idx
       ELSE file_idx' = file_idx + 1 /\ UNCHANGED pc
    /\ UNCHANGED <<build, outcome, aggVars, res_in, paths, global_bounds, nread>>

\* one record of reader.points(): Ok goes to add_point_unchecked, Err warns
ReadPoint ==
    /\ UNCHANGED <<stlVars, maskVars>>
    /\ pc = "points"
    /\ nread < MaxGlobPoints
    /\ nread' = nread + 1
    /\ \E r \in PointResults :
          IF r.ok
          THEN LET a == add_point_unchecked(hmi, r.point, build)
               IN  /\ Handed(a, r.point)
                   /\ pc' = IF a.panic THEN "done" ELSE pc
          ELSE UNCHANGED <<outcome, hmi, npoints, last_point, zs, inexact, pc>>
    /\ UNCHANGED <<build, hm, pre, res_in, paths, file_idx, global_bounds>>

\* reader.points() is exhausted: on to the next path
EndOfFile ==
    /\ UNCHANGED <<stlVars, maskVars>>
    /\ pc = "points"
    /\ file_idx' = file_idx + 1
    /\ pc' = "open"
    /\ UNCHANGED <<build, outcome, aggVars, res_in, paths, global_bounds, nread>>

\* after the last path: Ok(HeightMap::from(height_map_intermediate))
Return ==
    /\ UNCHANGED <<stlVars, maskVars>>
    /\ pc = "open"
    /\ file_idx > Len(paths)
    /\ hm' = HeightMapFrom(hmi)
    /\ outcome' = "ok"
    /\ pc' = "done"
    /\ UNCHANGED <<build, hmi, npoints, last_point, zs, inexact, pre,
                   res_in, paths, file_idx, global_bounds, nread>>

\* the environment: a file that was bounded can no longer be opened when the
\* ingestion loop reaches it
FileBecomesUnreadable ==
    /\ UNCHANGED <<stlVars, maskVars>>
    /\ pc = "open"
    /\ \E i \in file_idx..Len(paths) :
          /\ paths[i].readable
          /\ paths' = [paths EXCEPT ![i].readable = FALSE]
    /\ UNCHANGED <<build, outcome, aggVars, pc, res_in, file_idx, global_bounds, nread>>

NextGlob ==
    \/ GetPaths
    \/ BoundFile
    \/ Resolution
    \/ OpenFile
    \/ ReadPoint
    \/ EndOfFile
    \/ Return
    \/ FileBecomesUnreadable

SpecGlob == InitGlob /\ [][NextGlob]_vars

-----------------------------------------------------------------------------
(* utils.rs, mask.rs, stl.rs: the mesh generator.  A Vertex is <<x, y, z>>, *)
(* an absent Option<Vertex> is NoVertex, a Triangle is a normal and three   *)
(* vertices.  The grids of the model have integer heights and an x_range    *)
(* that divides z_scaling * x_res, so every z is an integer.                *)

\* normal_pos_or_default on the values of the model: 0 is FpCategory::Zero,
\* every other integer is Normal
normal_pos_or_default(float, default) == IF float > 0 THEN float ELSE default

BadIndex == -1

\* faulty variant: only the row is compared with the resolution
x_y_to_index_row_only(x_res, y_res, x, y) ==
    IF y < y_res THEN y * x_res + x ELSE BadIndex

x_y_to_index(x_res, y_res, x, y) ==
    IF x < x_res /\ y < y_res THEN y * x_res + x ELSE BadIndex

\* HeightMap::get_height: `Ok(self.data[x_y_to_index(..)?])`
get_height(h, x, y) ==
    LET index == x_y_to_index(h.x_res, h.y_res, x, y)
    IN  IF index = BadIndex THEN [err |-> "BadIndexError"]
        ELSE IF index >= Len(h.data) THEN [err |-> "panic"]
        ELSE [err |-> "none", index |-> index, height |-> h.data[index + 1]]

\* Mask::get_by_xy_checked (Err as FALSE, as its callers here take it)
MaskGetOrFalse(m, x, y) ==
    IF x < m.x_res /\ y < m.y_res /\ x >= 0 /\ y >= 0
    THEN m.data[(y * m.x_res) + x + 1]
    ELSE FALSE

NeighborMap ==
    <<<<-1, 1>>, <<0, 1>>, <<1, 1>>,
      <<-1, 0>>, <<0, 0>>, <<1, 0>>,
      <<-1, -1>>, <<0, -1>>, <<1, -1>>>>

get_neighbors(m, x, y) ==
    [k \in 1..Len(NeighborMap) |->
        MaskGetOrFalse(m, x + NeighborMap[k][1], y + NeighborMap[k][2])]

\* a faulty variant: a helper cell is true when its own mask cell is
StlHelperMaskFromOwnCell(m) ==
    [data  |-> [i \in 1..((m.x_res - 1) * (m.y_res - 1)) |->
                   get_neighbors(m, (i - 1) % (m.x_res - 1), (i - 1) \div (m.x_res - 1))[5]],
     x_res |-> m.x_res - 1,
     y_res |-> m.y_res - 1]

\* a faulty variant: a helper cell is true when the two mask cells of its own
\* row are
StlHelperMaskFromOwnRow(m) ==
    [data  |-> [i \in 1..((m.x_res - 1) * (m.y_res - 1)) |->
                   LET neighbors == get_neighbors(m, (i - 1) % (m.x_res - 1),
                                                     (i - 1) \div (m.x_res - 1))
                   IN  neighbors[5] /\ neighbors[6]],
     x_res |-> m.x_res - 1,
     y_res |-> m.y_res - 1]

\* impl From<&Mask> for StlHelperMask; neighbors[1], [2], [4], [5] of the
\* 0-based array are entries 2, 3, 5, 6 here
StlHelperMaskFrom(m) ==
    [data  |-> [i \in 1..((m.x_res - 1) * (m.y_res - 1)) |->
                   LET neighbors == get_neighbors(m, (i - 1) % (m.x_res - 1),
                                                     (i - 1) \div (m.x_res - 1))
                   IN  neighbors[2] /\ neighbors[3] /\ neighbors[5] /\ neighbors[6]],
     x_res |-> m.x_res - 1,
     y_res |-> m.y_res - 1]

\* StlHelperMask::get_by_xy_checked (Err as FALSE, as get_cardinal_edge takes it)
HelperGetOrFalse(h, x, y) ==
    IF x < h.x_res /\ y < h.y_res /\ x >= 0 /\ y >= 0
    THEN h.data[(y * h.x_res) + x + 1]
    ELSE FALSE

\* the coordinates `for x in 0..x_res { for y in 0..y_res` goes through, in order
LoopXY(x_res, y_res) ==
    [k \in 1..(x_res * y_res) |-> <<(k - 1) \div y_res, (k - 1) % y_res>>]

\* a faulty variant: cells off the helper mask count as true
get_cardinal_edge_open(h, use_x_axis, check_positive_edge) ==
    LET d == IF check_positive_edge THEN 1 ELSE -1
        x_offset == IF use_x_axis THEN d ELSE 0
        y_offset == IF use_x_axis THEN 0 ELSE d
        Inside(c) == c[1] + x_offset \in 0..(h.x_res - 1) /\ c[2] + y_offset \in 0..(h.y_res - 1)
    IN  SelectSeq(LoopXY(h.x_res, h.y_res),
                  LAMBDA c : /\ h.data[(c[2] * h.x_res) + c[1] + 1]
                             /\ Inside(c)
                             /\ ~HelperGetOrFalse(h, c[1] + x_offset, c[2] + y_offset))

get_cardinal_edge(h, use_x_axis, check_positive_edge) ==
    LET d == IF check_positive_edge THEN 1 ELSE -1
        x_offset == IF use_x_axis THEN d ELSE 0
        y_offset == IF use_x_axis THEN 0 ELSE d
    IN  SelectSeq(LoopXY(h.x_res, h.y_res),
                  LAMBDA c : /\ h.data[(c[2] * h.x_res) + c[1] + 1]
                             /\ ~HelperGetOrFalse(h, c[1] + x_offset, c[2] + y_offset))

NoVertex == <<>>

\* a faulty variant: the second triangle is dropped
vertex_rec_to_triangles_one(vertex_1, vertex_2, vertex_3, vertex_4, normal) ==
    <<[normal |-> normal, vertices |-> <<vertex_1, vertex_2, vertex_4>>]>>

vertex_rec_to_triangles_diagonal(vertex_1, vertex_2, vertex_3, vertex_4, normal) ==
    <<[normal |-> normal, vertices |-> <<vertex_1, vertex_2, vertex_4>>],
      [normal |-> normal, vertices |-> <<vertex_2, vertex_3, vertex_4>>]>>

\* None is the empty sequence
option_vertex_rec_to_triangles_diagonal(vertex_1, vertex_2, vertex_3, vertex_4, normal) ==
    IF NoVertex \in {vertex_1, vertex_2, vertex_3, vertex_4}
    THEN <<>>
    ELSE <<[normal |-> normal, vertices |-> <<vertex_1, vertex_2, vertex_4>>],
           [normal |-> normal, vertices |-> <<vertex_2, vertex_3, vertex_4>>]>>

\* z_scaling * x_res / x_range
ZScaleFactor(h, z_scaling) == (z_scaling * h.x_res) \div x_range(h.bounds)

TopVertex(h, index, z_scale_factor, base_thickness) ==
    <<index % h.x_res, index \div h.x_res,
      (normal_pos_or_default(h.data[index + 1] - h.bounds.min_z, 0) * z_scale_factor)
          + base_thickness>>

\* a faulty variant: the bottom is drawn at the height of the base
BottomVertexRaised(h, index) == <<index % h.x_res, index \div h.x_res, 1>>

BottomVertex(h, index) == <<index % h.x_res, index \div h.x_res, 0>>

\* a faulty variant: the top vertices of unselected cells exist as well
top_vertex_list_unmasked(h, m, z_scale_factor, base_thickness) ==
    [i \in 1..Len(h.data) |-> TopVertex(h, i - 1, z_scale_factor, base_thickness)]

\* the vertex lists of save_as_stl, and (with a mask) of save_as_stl_masked
top_vertex_list(h, m, z_scale_factor, base_thickness) ==
    [i \in 1..Len(h.data) |->
        IF m = NoMask \/ m.data[i]
        THEN TopVertex(h, i - 1, z_scale_factor, base_thickness)
        ELSE NoVertex]

bottom_vertex_list(h, m) ==
    [i \in 1..Len(h.data) |->
        IF m = NoMask \/ m.data[i] THEN BottomVertex(h, i - 1) ELSE NoVertex]

\* list[x_y_to_index(..)?]: the `?` returns BadIndexError, the index panics
\* past the end of the list
Fetch(list, index) ==
    IF index = BadIndex THEN [err |-> "BadIndexError", v |-> NoVertex]
    ELSE IF index >= Len(list) THEN [err |-> "panic", v |-> NoVertex]
    ELSE [err |-> "none", v |-> list[index + 1]]

\* one call of (option_)vertex_rec_to_triangles_diagonal on four fetched
\* vertices, its arguments evaluated in order: the error that ends the call,
\* the triangles that extend triangle_list, the error! lines logged
QuadFaces(f, normal, masked, wall) ==
    LET bad == {k \in 1..4 : f[k].err # "none"}
    IN  IF bad # {}
        THEN [err |-> f[CHOOSE k \in bad : \A j \in bad : k <= j].err,
              tris |-> <<>>, logged |-> 0]
        ELSE IF ~masked
        THEN [err |-> "none",
              tris |-> vertex_rec_to_triangles_diagonal(f[1].v, f[2].v, f[3].v, f[4].v, normal),
              logged |-> 0]
        ELSE LET o == option_vertex_rec_to_triangles_diagonal(
                          f[1].v, f[2].v, f[3].v, f[4].v, normal)
             IN  [err |-> "none", tris |-> o,
                  logged |-> IF wall /\ o = <<>> THEN 1 ELSE 0]

\* the statements run one after the other until one returns an error
RECURSIVE RunFaces(_, _)
RunFaces(faces, k) ==
    IF k = 0 THEN [err |-> "none", tris |-> <<>>, logged |-> 0]
    ELSE LET a == RunFaces(faces, k - 1)
         IN  IF a.err # "none" THEN a
             ELSE [err |-> faces[k].err,
                   tris |-> a.tris \o faces[k].tris,
                   logged |-> a.logged + faces[k].logged]

\* the top and the bottom faces of the quad at (x, y)
TopFaces(h, top, masked, x, y) ==
    QuadFaces(<<Fetch(top, x_y_to_index(h.x_res, h.y_res, x, y)),
                Fetch(top, x_y_to_index(h.x_res, h.y_res, x, y + 1)),
                Fetch(top, x_y_to_index(h.x_res, h.y_res, x + 1, y + 1)),
                Fetch(top, x_y_to_index(h.x_res, h.y_res, x + 1, y))>>,
              <<0, 0, 1>>, masked, FALSE)

BottomFaces(h, bottom, masked, x, y) ==
    QuadFaces(<<Fetch(bottom, x_y_to_index(h.x_res, h.y_res, x + 1, y)),
                Fetch(bottom, x_y_to_index(h.x_res, h.y_res, x + 1, y + 1)),
                Fetch(bottom, x_y_to_index(h.x_res, h.y_res, x, y + 1)),
                Fetch(bottom, x_y_to_index(h.x_res, h.y_res, x, y))>>,
              <<0, 0, -1>>, masked, FALSE)

\* every side face is built from top[a], top[b], bottom[b], bottom[a]
WallFaces(h, top, bottom, masked, a, b, normal) ==
    QuadFaces(<<Fetch(top, x_y_to_index(h.x_res, h.y_res, a[1], a[2])),
                Fetch(top, x_y_to_index(h.x_res, h.y_res, b[1], b[2])),
                Fetch(bottom, x_y_to_index(h.x_res, h.y_res, b[1], b[2])),
                Fetch(bottom, x_y_to_index(h.x_res, h.y_res, a[1], a[2]))>>,
              normal, masked, TRUE)

\* the loop over the quads: top faces then bottom faces of each
TopBottomLoop(h, top, bottom, masked) ==
    LET quads == LoopXY(h.x_res - 1, h.y_res - 1)
    IN  [k \in 1..(2 * Len(quads)) |->
            LET q == quads[(k + 1) \div 2]
            IN  IF k % 2 = 1 THEN TopFaces(h, top, masked, q[1], q[2])
                ELSE BottomFaces(h, bottom, masked, q[1], q[2])]

\* the four side loops of save_as_stl
NorthLoop(h, top, bottom) ==
    [k \in 1..(h.x_res - 1) |->
        WallFaces(h, top, bottom, FALSE,
                  <<k, h.y_res - 1>>, <<k - 1, h.y_res - 1>>, <<0, 1, 0>>)]

SouthLoop(h, top, bottom) ==
    [k \in 1..(h.x_res - 1) |->
        WallFaces(h, top, bottom, FALSE, <<k - 1, 0>>, <<k, 0>>, <<0, -1, 0>>)]

EastLoop(h, top, bottom) ==
    [k \in 1..(h.y_res - 1) |->
        WallFaces(h, top, bottom, FALSE,
                  <<h.x_res - 1, k>>, <<h.x_res - 1, k - 1>>, <<1, 0, 0>>)]

WestLoop(h, top, bottom) ==
    [k \in 1..(h.y_res - 1) |->
        WallFaces(h, top, bottom, FALSE, <<0, k - 1>>, <<0, k>>, <<-1, 0, 0>>)]

\* the four side loops of save_as_stl_masked over the edges of the helper mask
XPosLoop(h, top, bottom, edges) ==
    [k \in 1..Len(edges) |->
        WallFaces(h, top, bottom, TRUE,
                  <<edges[k][1] + 1, edges[k][2] + 1>>, <<edges[k][1] + 1, edges[k][2]>>,
                  <<1, 0, 0>>)]

XNegLoop(h, top, bottom, edges) ==
    [k \in 1..Len(edges) |->
        WallFaces(h, top, bottom, TRUE,
                  <<edges[k][1], edges[k][2]>>, <<edges[k][1], edges[k][2] + 1>>,
                  <<-1, 0, 0>>)]

YPosLoop(h, top, bottom, edges) ==
    [k \in 1..Len(edges) |->
        WallFaces(h, top, bottom, TRUE,
                  <<edges[k][1] + 1, edges[k][2] + 1>>, <<edges[k][1], edges[k][2] + 1>>,
                  <<0, 1, 0>>)]

YNegLoop(h, top, bottom, edges) ==
    [k \in 1..Len(edges) |->
        WallFaces(h, top, bottom, TRUE,
                  <<edges[k][1], edges[k][2]>>, <<edges[k][1] + 1, edges[k][2]>>,
                  <<0, -1, 0>>)]

\* save_as_stl up to the opening of the file
save_as_stl(h, z_scaling, base_thickness) ==
    LET top    == top_vertex_list(h, NoMask, ZScaleFactor(h, z_scaling), base_thickness)
        bottom == bottom_vertex_list(h, NoMask)
        faces  == TopBottomLoop(h, top, bottom, FALSE)
                    \o NorthLoop(h, top, bottom) \o SouthLoop(h, top, bottom)
                    \o EastLoop(h, top, bottom) \o WestLoop(h, top, bottom)
    IN  RunFaces(faces, Len(faces))

\* save_as_stl_masked up to the opening of the file; mask.data[index] panics
\* when the mask has fewer cells than the grid
save_as_stl_masked(h, m, z_scaling, base_thickness) ==
    IF Len(m.data) < Len(h.data)
    THEN [err |-> "panic", tris |-> <<>>, logged |-> 0]
    ELSE
    LET top    == top_vertex_list(h, m, ZScaleFactor(h, z_scaling), base_thickness)
        bottom == bottom_vertex_list(h, m)
        first  == TopBottomLoop(h, top, bottom, TRUE)
        a      == RunFaces(first, Len(first))
        stl_helper_mask == StlHelperMaskFrom(m)
        faces  == XPosLoop(h, top, bottom, get_cardinal_edge(stl_helper_mask, TRUE, TRUE))
                    \o XNegLoop(h, top, bottom, get_cardinal_edge(stl_helper_mask, TRUE, FALSE))
                    \o YPosLoop(h, top, bottom, get_cardinal_edge(stl_helper_mask, FALSE, TRUE))
                    \o YNegLoop(h, top, bottom, get_cardinal_edge(stl_helper_mask, FALSE, FALSE))
        b      == RunFaces(faces, Len(faces))
    IN  IF a.err # "none" THEN a
        ELSE [err |-> b.err, tris |-> a.tris \o b.tris, logged |-> b.logged]

-----------------------------------------------------------------------------
(* The mesh generator called once on a height map, with or without a mask, *)
(* for a path at which a file may already exist.                           *)

StlSizes == {s \in (1..MaxRes) \X (1..MaxRes) : s[1] * s[2] <= MaxCells}
StlBigSize == <<5, 5>>

\* flat at 0, or 0 and 1 in turn
StlHeights(n) == {[i \in 1..n |-> 0], [i \in 1..n |-> (i - 1) % 2]}

\* the grids: x_range = x_res, so that z_scale_factor = z_scaling
GridsOf(x_res, y_res) ==
    {[data  |-> d, x_res |-> x_res, y_res |-> y_res,
      bounds |-> [min_x |-> 0, max_x |-> x_res, min_y |-> 0, max_y |-> y_res,
                  min_z |-> mz, max_z |-> 1]] :
        d \in StlHeights(x_res * y_res), mz \in {-1, 0}}

StlGrids == UNION {GridsOf(s[1], s[2]) : s \in StlSizes \cup {StlBigSize}}

MaskOf(x_res, y_res, selected) ==
    [data |-> [i \in 1..(x_res * y_res) |-> (i - 1) \in selected],
     x_res |-> x_res, y_res |-> y_res]

RECURSIVE SubsetsUpTo(_, _)
SubsetsUpTo(S, k) ==
    IF k = 0 THEN {{}}
    ELSE LET smaller == SubsetsUpTo(S, k - 1)
         IN  smaller \cup {T \cup {c} : T \in smaller, c \in S}

\* all cells selected but at most MaxFalse
HoleMasks(x_res, y_res) ==
    {MaskOf(x_res, y_res, (0..(x_res * y_res - 1)) \ F) :
        F \in SubsetsUpTo(0..(x_res * y_res - 1), MaxFalse)}

\* one block of cells selected (or none)
BlockMasks(x_res, y_res) ==
    {MaskOf(x_res, y_res, {y * x_res + x : x \in x0..x1, y \in y0..y1}) :
        x0 \in 0..(x_res - 1), x1 \in 0..(x_res - 1),
        y0 \in 0..(y_res - 1), y1 \in 0..(y_res - 1)}

\* on the big grid: a ring around an unselected centre, two islands either
\* side of an unselected middle column
BigMasks(x_res, y_res) ==
    {MaskOf(x_res, y_res, (0..(x_res * y_res - 1)) \ {(y_res \div 2) * x_res + (x_res \div 2)}),
     MaskOf(x_res, y_res, {i \in 0..(x_res * y_res - 1) : i % x_res # x_res \div 2})}

\* a Mask of those cells over the bounds b
MaskWithBounds(m, b) ==
    [data |-> m.data, x_res |-> m.x_res, y_res |-> m.y_res, bounds |-> b]

\* the masks made for a grid, as by Mask::new_with_dims(hm.x_res, hm.y_res, hm.bounds)
StlMasks(h) ==
    {MaskWithBounds(m, h.bounds) :
        m \in IF <<h.x_res, h.y_res>> \in StlSizes
              THEN HoleMasks(h.x_res, h.y_res) \cup BlockMasks(h.x_res, h.y_res)
              ELSE BigMasks(h.x_res, h.y_res) \cup BlockMasks(h.x_res, h.y_res)}

\* the same region moved east
MovedBounds(b) == [b EXCEPT !.min_x = @ + 1, !.max_x = @ + 1]

AllCells(x_res, y_res) == 0..(x_res * y_res - 1)

\* masks made for another grid: over other bounds, with x_res and y_res
\* exchanged, one column narrower, one column wider
StlOtherMasks(h) ==
    IF <<h.x_res, h.y_res>> \notin StlSizes THEN {}
    ELSE {MaskWithBounds(MaskOf(h.x_res, h.y_res, AllCells(h.x_res, h.y_res)),
                         MovedBounds(h.bounds))}
         \cup {MaskWithBounds(m, h.bounds) :
                  m \in IF h.x_res = h.y_res THEN {} ELSE HoleMasks(h.y_res, h.x_res)}
         \cup {MaskWithBounds(MaskOf(x, h.y_res, AllCells(x, h.y_res)), h.bounds) :
                  x \in {h.x_res - 1, h.x_res + 1} \ {0}}

ZScalings == {1, 2}
BaseThicknesses == {0, 1}

\* an STL file that is already there
SomeOtherFile == [triangles |-> <<>>]

InitStl ==
    /\ build = "debug"
    /\ outcome = "running"
    /\ hmi = NoHmi
    /\ hm \in StlGrids
    /\ npoints = 0
    /\ last_point = NoPoint
    /\ zs = <<>> /\ inexact = <<>> /\ pre = <<>>
    /\ pc = "none" /\ res_in = <<>> /\ paths = <<>> /\ file_idx = 0
    /\ global_bounds = UtmBoundingBoxDefault /\ nread = 0
    /\ call = NoCall
    /\ mask = NoMask
    /\ file \in {NoFile, SomeOtherFile}
    /\ log_errors = 0
    /\ point_deltas = <<>> /\ ret = NoRet

\* the end of both calls: the error of the assembly if any, else
\* OpenOptions::new().write(true).create_new(true).open(path)? and write_stl
\* a faulty variant: the file is created whether or not one exists
WrittenOverwriting(r) ==
    /\ log_errors' = r.logged
    /\ IF r.err # "none"
       THEN outcome' = r.err /\ UNCHANGED file
       ELSE outcome' = "ok" /\ file' = [triangles |-> r.tris]

Written(r) ==
    /\ log_errors' = r.logged
    /\ IF r.err # "none"
       THEN outcome' = r.err /\ UNCHANGED file
       ELSE IF file # NoFile
       THEN outcome' = "IoError" /\ UNCHANGED file
       ELSE outcome' = "ok" /\ file' = [triangles |-> r.tris]

SaveAsStl ==
    /\ outcome = "running"
    /\ \E z_scaling \in ZScalings, base_thickness \in BaseThicknesses :
          /\ call' = [fn |-> "save_as_stl", z_scaling |-> z_scaling,
                      base_thickness |-> base_thickness]
          /\ Written(save_as_stl(hm, z_scaling, base_thickness))
    /\ UNCHANGED <<build, aggVars, globVars, mask, maskVars>>

SaveAsStlMasked ==
    /\ outcome = "running"
    /\ \E m \in StlMasks(hm) \cup StlOtherMasks(hm), z_scaling \in ZScalings, base_thickness \in BaseThicknesses :
          /\ call' = [fn |-> "save_as_stl_masked", z_scaling |-> z_scaling,
                      base_thickness |-> base_thickness]
          /\ mask' = m
          /\ Written(save_as_stl_masked(hm, m, z_scaling, base_thickness))
    /\ UNCHANGED <<build, aggVars, globVars, maskVars>>

\* x and y are usize: from 0 to past the last column and row
GetHeight ==
    /\ outcome = "running"
    /\ \E x \in 0..(hm.x_res + 1), y \in 0..(hm.y_res + 1) :
          LET r == get_height(hm, x, y)
          IN  /\ call' = [fn |-> "get_height", x |-> x, y |-> y]
              /\ outcome' = IF r.err = "none" THEN "ok" ELSE r.err
              /\ ret' = IF r.err = "none" THEN [index |-> r.index, height |-> r.height]
                        ELSE NoRet
    /\ UNCHANGED <<build, aggVars, globVars, mask, file, log_errors, point_deltas>>

NextStl == SaveAsStl \/ SaveAsStlMasked \/ GetHeight

SpecStl == InitStl /\ [][NextStl]_vars

-----------------------------------------------------------------------------
(* mask.rs: Mask; height_map.rs: HeightMap::offset_by_mask;
   utils.rs: get_point_deltas_within_radius *)

\* Mask::new_with_dims; x_tick and y_tick are bounds.x_range() / (x_res - 1)
\* and bounds.y_range() / (y_res - 1), see MaskTicks
new_with_dims(x_res, y_res, bounds) ==
    [data |-> [i \in 1..(x_res * y_res) |-> FALSE],
     x_res |-> x_res, y_res |-> y_res, bounds |-> bounds]

MaskTicks(m) ==
    [x |-> Tick(x_range(m.bounds), m.x_res), y |-> Tick(y_range(m.bounds), m.y_res)]

\* `self.x_res == other.x_res && self.y_res == other.y_res && self.bounds == other.bounds`
GeometryEq(a, b) == a.x_res = b.x_res /\ a.y_res = b.y_res /\ a.bounds = b.bounds

\* a faulty variant: a negative coordinate is taken as 0
set_x_y_saturating(m, x, y, new_state) ==
    LET sx == IF x < 0 THEN 0 ELSE x
        sy == IF y < 0 THEN 0 ELSE y
    IN  IF sx < m.x_res /\ sy < m.y_res
        THEN [err |-> "none",
              m |-> [m EXCEPT !.data[(sy * m.x_res) + sx + 1] = new_state]]
        ELSE [err |-> "BadIndexError", m |-> m]

\* Mask::set_x_y, x and y being the i64 sums before the cast to usize: a
\* negative sum wraps to 2^64 + x, which is above every resolution
set_x_y(m, x, y, new_state) ==
    IF x >= 0 /\ x < m.x_res /\ y >= 0 /\ y < m.y_res
    THEN [err |-> "none",
          m |-> [m EXCEPT !.data[(y * m.x_res) + x + 1] = new_state]]
    ELSE [err |-> "BadIndexError", m |-> m]

\* the loop of set_with_deltas after k deltas
RECURSIVE SetDeltasLoop(_, _, _, _, _, _)
SetDeltasLoop(m, x, y, state, deltas, k) ==
    IF k = 0 THEN [m |-> m, num_successes |-> 0]
    ELSE LET a == SetDeltasLoop(m, x, y, state, deltas, k - 1)
             r == set_x_y(a.m, x + deltas[k][1], y + deltas[k][2], state)
         IN  IF r.err = "none"
             THEN [m |-> r.m, num_successes |-> a.num_successes + 1]
             ELSE a

\* Mask::set_with_deltas
set_with_deltas(m, x, y, state, deltas) ==
    LET a == SetDeltasLoop(m, x, y, state, deltas, Len(deltas))
    IN  IF a.num_successes = 0
        THEN [err |-> "SetWithDeltaError", m |-> a.m]
        ELSE [err |-> "none", m |-> a.m]

\* `for (own, other) in self.data.iter_mut().zip(other.data.iter())`: the
\* shorter of the two ends the loop; own keeps its cells past that
Zip(own, other, op) ==
    [i \in 1..Len(own) |->
        IF i > Len(other) THEN own[i]
        ELSE CASE op = "|=" -> own[i] \/ other[i]
               [] op = "&=" -> own[i] /\ other[i]
               [] op = "^=" -> own[i] # other[i]
               [] op = "-=" -> own[i] /\ ~other[i]]

\* the Result of a checked combinator, data being the combined cells if any
CheckedResult(self, other_mask, data) ==
    IF GeometryEq(self, other_mask)
    THEN [err |-> "none", m |-> [self EXCEPT !.data = data]]
    ELSE [err |-> "MaskBoundMismatchError", m |-> self]

\* a faulty variant: the bounds are not compared
checked_bitor_assign_res_only(self, other_mask) ==
    IF self.x_res = other_mask.x_res /\ self.y_res = other_mask.y_res
    THEN [err |-> "none",
          m |-> [self EXCEPT !.data = Zip(self.data, other_mask.data, "|=")]]
    ELSE [err |-> "MaskBoundMismatchError", m |-> self]

\* Mask::checked_bitor_assign
checked_bitor_assign(self, other_mask) ==
    CheckedResult(self, other_mask,
                  Zip(self.data, other_mask.data, "|="))

\* Mask::checked_bitand_assign
checked_bitand_assign(self, other_mask) ==
    CheckedResult(self, other_mask,
                  Zip(self.data, other_mask.data, "&="))

\* Mask::checked_bitxor_assign
checked_bitxor_assign(self, other_mask) ==
    CheckedResult(self, other_mask,
                  Zip(self.data, other_mask.data, "^="))

\* Mask::checked_sub_assign
checked_sub_assign(self, other_mask) ==
    CheckedResult(self, other_mask,
                  Zip(self.data, other_mask.data, "-="))

\* impl BitOrAssign, BitAndAssign, BitXorAssign, SubAssign for Mask
bitor_assign(self, other_mask) ==
    [self EXCEPT !.data = Zip(self.data, other_mask.data, "|=")]
bitand_assign(self, other_mask) ==
    [self EXCEPT !.data = Zip(self.data, other_mask.data, "&=")]
bitxor_assign(self, other_mask) ==
    [self EXCEPT !.data = Zip(self.data, other_mask.data, "^=")]
sub_assign(self, rhs) ==
    [self EXCEPT !.data = Zip(self.data, rhs.data, "-=")]

\* a faulty variant: nothing is negated
invert_not(self) == self

\* Mask::invert
invert(self) == [self EXCEPT !.data = [i \in 1..Len(self.data) |-> ~self.data[i]]]

\* a faulty variant: the offset is added to every height
offset_by_mask_everywhere(self, m, offset) ==
    IF GeometryEq(self, m)
    THEN [err |-> "none",
          h |-> [self EXCEPT !.data = [i \in 1..Len(self.data) |-> F64Add(self.data[i], offset)]]]
    ELSE [err |-> "MaskBoundMismatchError", h |-> self]

\* HeightMap::offset_by_mask (a mask of x_res * y_res cells has a cell for
\* every height, so `mask_iter.next().unwrap()` finds one)
offset_by_mask(self, m, offset) ==
    IF ~GeometryEq(self, m)
    THEN [err |-> "MaskBoundMismatchError", h |-> self]
    ELSE [err |-> "none",
          h |-> [self EXCEPT !.data =
                    [i \in 1..Len(self.data) |->
                        IF m.data[i] THEN F64Add(self.data[i], offset)
                        ELSE self.data[i]]]]

\* i16::MAX
I16Max == 32767

\* the value an i16 holds after an operation whose exact result is v
WrapI16(v) == ((v + I16Max + 1) % (2 * (I16Max + 1))) - (I16Max + 1)

\* get_point_deltas_within_radius: a debug build panics where u16 or i16
\* arithmetic overflows, a release build wraps
get_point_deltas_within_radius(radius, bld) ==
    LET diameter == (2 * radius) + 1
        signed_radius == WrapI16(radius)
        square == signed_radius * signed_radius
        radius_squared_plus_one == WrapI16(WrapI16(square) + 1)
        first == WrapI16(-signed_radius)
        n == IF first > signed_radius THEN 0 ELSE signed_radius - first + 1
        candidates == [i \in 1..(n * n) |-> <<first + ((i - 1) \div n), first + ((i - 1) % n)>>]
        overflows ==
            \/ diameter > U16Max
            \/ square > I16Max
            \/ WrapI16(square) + 1 > I16Max
            \/ (diameter % (U16Max + 1)) * (diameter % (U16Max + 1)) > U16Max
            \/ -signed_radius > I16Max
            \/ \E i \in 1..(n * n) :
                  LET x == candidates[i][1]
                      y == candidates[i][2]
                  IN  x * x > I16Max \/ y * y > I16Max \/ (x * x) + (y * y) > I16Max
    IN  IF bld = "debug" /\ overflows THEN Panicked
        ELSE Fine(SelectSeq(candidates,
                            LAMBDA p : WrapI16(WrapI16(p[1] * p[1]) + WrapI16(p[2] * p[2]))
                                         < radius_squared_plus_one))

\* UtmCoord::get_x_y_coords
get_x_y_coords(easting, northing, x_offset, y_offset, x_tick, y_tick) ==
    <<ToUsize(easting - x_offset, x_tick), ToUsize(northing - y_offset, y_tick)>>

\* Mask::add_utm_point; utm_coord is <<easting, northing>>
add_utm_point(m, utm_coord, radius, bld) ==
    LET deltas == get_point_deltas_within_radius(radius, bld)
        xy == get_x_y_coords(utm_coord[1], utm_coord[2], m.bounds.min_x, m.bounds.min_y,
                             MaskTicks(m).x, MaskTicks(m).y)
    IN  IF deltas.panic THEN [err |-> "panic", m |-> m]
        ELSE set_with_deltas(m, xy[1], xy[2], TRUE, deltas.val)

\* `utm_trail.line_interpolate_point(i as f64 / target_num_points as f64)` for
\* a LineString of at most two coordinates: None (<<>>) for the fraction 0/0,
\* for a LineString without a segment, and for a segment of length 0, whose
\* fraction along the segment is 0/0; else the point at that fraction
line_interpolate_point(utm_trail, i, target_num_points) ==
    IF target_num_points = 0 \/ Len(utm_trail) < 2 \/ utm_trail[1] = utm_trail[2]
    THEN <<>>
    ELSE <<<<utm_trail[1][1] + ((utm_trail[2][1] - utm_trail[1][1]) * i) \div target_num_points,
             utm_trail[1][2] + ((utm_trail[2][2] - utm_trail[1][2]) * i) \div target_num_points>>>>

\* the loop of add_utm_trail from position i on: a position without a point
\* is logged and skipped, a failing set_with_deltas ends the call
RECURSIVE AddTrailLoop(_, _, _, _, _, _)
AddTrailLoop(m, utm_trail, deltas, target_num_points, i, logged) ==
    IF i > target_num_points THEN [err |-> "none", m |-> m, logged |-> logged]
    ELSE LET pt == line_interpolate_point(utm_trail, i, target_num_points)
         IN  IF pt = <<>>
             THEN AddTrailLoop(m, utm_trail, deltas, target_num_points, i + 1, logged + 1)
             ELSE LET xy == get_x_y_coords(pt[1][1], pt[1][2], m.bounds.min_x, m.bounds.min_y,
                                           MaskTicks(m).x, MaskTicks(m).y)
                      r == set_with_deltas(m, xy[1], xy[2], TRUE, deltas)
                  IN  IF r.err # "none" THEN [err |-> r.err, m |-> r.m, logged |-> logged]
                      ELSE AddTrailLoop(r.m, utm_trail, deltas, target_num_points, i + 1, logged)

\* Mask::add_utm_trail
add_utm_trail(m, utm_trail, dot_radius, target_num_points, bld) ==
    LET deltas == get_point_deltas_within_radius(dot_radius, bld)
    IN  IF deltas.panic THEN [err |-> "panic", m |-> m, logged |-> 0]
        ELSE AddTrailLoop(m, utm_trail, deltas.val, target_num_points, 0, 0)

\* `utm_region.contains(&Coord::from(&self.get_x_y_utm_unchecked(x, y)))`:
\* the point (x * x_tick + min_x, y * y_tick + min_y) lies in the interior of
\* the polygon; an infinite tick gives a point that is in no polygon
ContainsCell(m, region, x, y) ==
    LET tx == MaskTicks(m).x
        ty == MaskTicks(m).y
    IN  /\ tx.den # 0 /\ ty.den # 0
        /\ region.min_x * tx.den < (x * tx.num) + (m.bounds.min_x * tx.den)
        /\ (x * tx.num) + (m.bounds.min_x * tx.den) < region.max_x * tx.den
        /\ region.min_y * ty.den < (y * ty.num) + (m.bounds.min_y * ty.den)
        /\ (y * ty.num) + (m.bounds.min_y * ty.den) < region.max_y * ty.den

\* the loop of add_filled_utm_polygon after k cells: the index
\* `(y*self.x_res) + x` panics past the end of data
RECURSIVE FillLoop(_, _, _, _)
FillLoop(m, region, cells, k) ==
    IF k = 0 THEN [err |-> "none", m |-> m]
    ELSE LET a == FillLoop(m, region, cells, k - 1)
             x == cells[k][1]
             y == cells[k][2]
             index == (y * m.x_res) + x
         IN  IF a.err # "none" THEN a
             ELSE IF index >= Len(a.m.data) THEN [err |-> "panic", m |-> a.m]
             ELSE [err |-> "none",
                   m |-> [a.m EXCEPT !.data[index + 1] = @ \/ ContainsCell(m, region, x, y)]]

\* Mask::add_filled_utm_polygon; cells are the (x, y) that
\* `for x in min_x..=max_x { for y in min_y..=max_y {` visits, in order
add_filled_utm_polygon(m, utm_region) ==
    IF utm_region.empty THEN [err |-> "NoBoundingRectError", m |-> m]
    ELSE LET lo == get_x_y_coords(utm_region.min_x, utm_region.min_y,
                                  m.bounds.min_x, m.bounds.min_y,
                                  MaskTicks(m).x, MaskTicks(m).y)
             hi == get_x_y_coords(utm_region.max_x, utm_region.max_y,
                                  m.bounds.min_x, m.bounds.min_y,
                                  MaskTicks(m).x, MaskTicks(m).y)
             w == hi[1] - lo[1] + 1
             h == hi[2] - lo[2] + 1
             cells == IF w <= 0 \/ h <= 0 THEN <<>>
                      ELSE [i \in 1..(w * h) |->
                              <<lo[1] + ((i - 1) \div h), lo[2] + ((i - 1) % h)>>]
         IN  IF hi[1] > m.x_res \/ hi[2] > m.y_res
             THEN [err |-> "PolygonOutOfBoundsError", m |-> m]
             ELSE FillLoop(m, utm_region, cells, Len(cells))

-----------------------------------------------------------------------------
(* The masks, grids and arguments of the mask operations *)

\* resolutions of the masks, and the cells a mask has at most
MaxMaskRes == 3
MaxMaskCells == 4

\* the largest radius of a disk that is set into a mask
MaxRadius == 1

\* the largest coordinate of a corner of a polygon
MaxPolygonCoord == 3

MaskSizes ==
    {s \in (1..MaxMaskRes) \X (1..MaxMaskRes) : s[1] * s[2] <= MaxMaskCells}

\* every mask of that geometry
MasksOver(x_res, y_res, b) ==
    {MaskWithBounds(MaskOf(x_res, y_res, selected), b) :
        selected \in SUBSET AllCells(x_res, y_res)}

\* the masks: over a region of x_res by y_res cells one unit apart (a single
\* row or column is one unit wide), its south-west corner at (1, 0)
MaskInputs ==
    UNION {MasksOver(s[1], s[2],
                     [min_x |-> 1, max_x |-> 1 + (IF s[1] > 1 THEN s[1] - 1 ELSE 1),
                      min_y |-> 0, max_y |-> IF s[2] > 1 THEN s[2] - 1 ELSE 1,
                      min_z |-> 0, max_z |-> 1]) : s \in MaskSizes}

\* masks of another geometry than m: the same cells over a region moved
\* east, and the full masks of the other sizes over the bounds of m
OtherGeometryMasks(m) ==
    {MaskWithBounds(m, MovedBounds(m.bounds))}
    \cup {MaskWithBounds(MaskOf(s[1], s[2], AllCells(s[1], s[2])), m.bounds) :
            s \in MaskSizes \ {<<m.x_res, m.y_res>>}}

\* the operands of the combinators
OtherMasks(m) == MasksOver(m.x_res, m.y_res, m.bounds) \cup OtherGeometryMasks(m)

\* the grids a mask is applied to: the one it was made for, and for a full
\* mask the grids of another geometry
GridsFor(m) ==
    LET GridOf(o) == [data |-> [i \in 1..(o.x_res * o.y_res) |-> (i - 1) % 2],
                      x_res |-> o.x_res, y_res |-> o.y_res, bounds |-> o.bounds]
    IN  {GridOf(m)}
        \cup IF \A i \in 1..Len(m.data) : m.data[i]
             THEN {GridOf(o) : o \in OtherGeometryMasks(m)}
             ELSE {}

\* the polygons: one without coordinates, which has no bounding rectangle,
\* and the rectangles with corners (min_x, min_y) and (max_x, max_y)
PolygonInputs ==
    {[empty |-> TRUE]}
    \cup {[empty |-> FALSE, min_x |-> x[1], max_x |-> x[2], min_y |-> y[1], max_y |-> y[2]] :
            x \in {c \in (0..MaxPolygonCoord) \X (0..MaxPolygonCoord) : c[1] <= c[2]},
            y \in {c \in (0..MaxPolygonCoord) \X (0..MaxPolygonCoord) : c[1] <= c[2]}}

InitMask ==
    /\ build \in Builds
    /\ outcome = "running"
    /\ mask \in MaskInputs
    /\ hm \in GridsFor(mask)
    /\ call = NoCall
    /\ point_deltas = <<>> /\ ret = NoRet
    /\ file = NoFile /\ log_errors = 0
    /\ hmi = NoHmi /\ npoints = 0 /\ last_point = NoPoint
    /\ zs = <<>> /\ inexact = <<>> /\ pre = <<>>
    /\ pc = "none" /\ res_in = <<>> /\ paths = <<>> /\ file_idx = 0
    /\ global_bounds = UtmBoundingBoxDefault /\ nread = 0

\* the call returned r = [err, m]
Returned(r) ==
    /\ outcome' = IF r.err = "none" THEN "ok" ELSE r.err
    /\ mask' = r.m

notCalledVars == <<build, hmi, npoints, last_point, zs, inexact, pre, globVars, file, log_errors, ret>>

\* the deltas are disks, no delta at all, one delta to the west, or one
\* delta far to the north-east
SetWithDeltas ==
    /\ outcome = "running"
    /\ \E x \in 0..mask.x_res, y \in 0..mask.y_res, state \in BOOLEAN,
          deltas \in {get_point_deltas_within_radius(r, "release").val : r \in 0..MaxRadius}
                       \cup {<<>>, <<<<-1, 0>>>>, <<<<MaxMaskRes, MaxMaskRes>>>>} :
          /\ call' = [fn |-> "set_with_deltas", x |-> x, y |-> y, state |-> state,
                      deltas |-> deltas]
          /\ Returned(set_with_deltas(mask, x, y, state, deltas))
    /\ UNCHANGED <<notCalledVars, hm, point_deltas>>

CheckedBitOrAssign ==
    /\ outcome = "running"
    /\ \E other_mask \in OtherMasks(mask) :
          /\ call' = [fn |-> "checked_bitor_assign", other_mask |-> other_mask]
          /\ Returned(checked_bitor_assign(mask, other_mask))
    /\ UNCHANGED <<notCalledVars, hm, point_deltas>>

CheckedBitAndAssign ==
    /\ outcome = "running"
    /\ \E other_mask \in OtherMasks(mask) :
          /\ call' = [fn |-> "checked_bitand_assign", other_mask |-> other_mask]
          /\ Returned(checked_bitand_assign(mask, other_mask))
    /\ UNCHANGED <<notCalledVars, hm, point_deltas>>

CheckedBitXorAssign ==
    /\ outcome = "running"
    /\ \E other_mask \in OtherMasks(mask) :
          /\ call' = [fn |-> "checked_bitxor_assign", other_mask |-> other_mask]
          /\ Returned(checked_bitxor_assign(mask, other_mask))
    /\ UNCHANGED <<notCalledVars, hm, point_deltas>>

CheckedSubAssign ==
    /\ outcome = "running"
    /\ \E other_mask \in OtherMasks(mask) :
          /\ call' = [fn |-> "checked_sub_assign", other_mask |-> other_mask]
          /\ Returned(checked_sub_assign(mask, other_mask))
    /\ UNCHANGED <<notCalledVars, hm, point_deltas>>

\* `mask |= other_mask` and the like return nothing
BitOrAssign ==
    /\ outcome = "running"
    /\ \E other_mask \in OtherMasks(mask) :
          /\ call' = [fn |-> "bitor_assign", other_mask |-> other_mask]
          /\ mask' = bitor_assign(mask, other_mask)
    /\ outcome' = "ok"
    /\ UNCHANGED <<notCalledVars, hm, point_deltas>>

BitAndAssign ==
    /\ outcome = "running"
    /\ \E other_mask \in OtherMasks(mask) :
          /\ call' = [fn |-> "bitand_assign", other_mask |-> other_mask]
          /\ mask' = bitand_assign(mask, other_mask)
    /\ outcome' = "ok"
    /\ UNCHANGED <<notCalledVars, hm, point_deltas>>

BitXorAssign ==
    /\ outcome = "running"
    /\ \E other_mask \in OtherMasks(mask) :
          /\ call' = [fn |-> "bitxor_assign", other_mask |-> other_mask]
          /\ mask' = bitxor_assign(mask, other_mask)
    /\ outcome' = "ok"
    /\ UNCHANGED <<notCalledVars, hm, point_deltas>>

SubAssign ==
    /\ outcome = "running"
    /\ \E rhs \in OtherMasks(mask) :
          /\ call' = [fn |-> "sub_assign", other_mask |-> rhs]
          /\ mask' = sub_assign(mask, rhs)
    /\ outcome' = "ok"
    /\ UNCHANGED <<notCalledVars, hm, point_deltas>>

Invert ==
    /\ outcome = "running"
    /\ call' = [fn |-> "invert"]
    /\ mask' = invert(mask)
    /\ outcome' = "ok"
    /\ UNCHANGED <<notCalledVars, hm, point_deltas>>

OffsetByMask ==
    /\ outcome = "running"
    /\ \E offset \in {-1, 1} :
          LET r == offset_by_mask(hm, mask, offset)
          IN  /\ call' = [fn |-> "offset_by_mask", offset |-> offset]
              /\ hm' = r.h
              /\ outcome' = IF r.err = "none" THEN "ok" ELSE r.err
    /\ UNCHANGED <<notCalledVars, mask, point_deltas>>

\* the deltas are computed before anything is drawn into the mask; 128 is
\* the least radius for which `diameter.pow(2)` does not fit u16
GetPointDeltasWithinRadius ==
    /\ outcome = "running"
    /\ mask = new_with_dims(mask.x_res, mask.y_res, mask.bounds)
    /\ \E radius \in (0..MaxRadius) \cup {128} :
          LET r == get_point_deltas_within_radius(radius, build)
          IN  /\ call' = [fn |-> "get_point_deltas_within_radius", radius |-> radius]
              /\ IF r.panic
                 THEN outcome' = "panic" /\ UNCHANGED point_deltas
                 ELSE outcome' = "ok" /\ point_deltas' = r.val
    /\ UNCHANGED <<notCalledVars, hm, mask>>

AddFilledUtmPolygon ==
    /\ outcome = "running"
    /\ \E utm_region \in PolygonInputs :
          /\ call' = [fn |-> "add_filled_utm_polygon", utm_region |-> utm_region]
          /\ Returned(add_filled_utm_polygon(mask, utm_region))
    /\ UNCHANGED <<notCalledVars, hm, point_deltas>>

\* coordinates west of, inside and past the region of the mask
AddUtmPoint ==
    /\ outcome = "running"
    /\ \E easting \in 0..(MaxMaskRes + 1), northing \in 0..(MaxMaskRes + 1),
          radius \in 0..MaxRadius :
          /\ call' = [fn |-> "add_utm_point", utm_coord |-> <<easting, northing>>,
                      radius |-> radius]
          /\ Returned(add_utm_point(mask, <<easting, northing>>, radius, build))
    /\ UNCHANGED <<notCalledVars, hm, point_deltas>>

\* the trails: no coordinate, one coordinate, and two coordinates two units
\* apart or equal, so that every resampled position is a whole number
TrailInputs ==
    LET TrailCoords == {1, 3} \X {0, 2}
    IN  {<<>>} \cup {<<p>> : p \in TrailCoords}
        \cup {<<p, q>> : p \in TrailCoords, q \in TrailCoords}

AddUtmTrail ==
    /\ outcome = "running"
    /\ \E utm_trail \in TrailInputs, dot_radius \in 0..MaxRadius,
          target_num_points \in {0, 1, 2} :
          LET r == add_utm_trail(mask, utm_trail, dot_radius, target_num_points, build)
          IN  /\ call' = [fn |-> "add_utm_trail", utm_trail |-> utm_trail,
                          dot_radius |-> dot_radius,
                          target_num_points |-> target_num_points]
              /\ Returned(r)
              /\ log_errors' = r.logged
    /\ UNCHANGED <<build, hmi, npoints, last_point, zs, inexact, pre, globVars, file, ret,
                   hm, point_deltas>>

NextMask ==
    \/ SetWithDeltas
    \/ CheckedBitOrAssign \/ CheckedBitAndAssign \/ CheckedBitXorAssign \/ CheckedSubAssign
    \/ BitOrAssign \/ BitAndAssign \/ BitXorAssign \/ SubAssign
    \/ Invert
    \/ OffsetByMask
    \/ GetPointDeltasWithinRadius
    \/ AddFilledUtmPolygon
    \/ AddUtmPoint
    \/ AddUtmTrail

SpecMask == InitMask /\ [][NextMask]_vars

-----------------------------------------------------------------------------
(* Claims about the aggregator *)

\* floor(d / tick), as the specification writes the cell of a sample
FloorCell(d, tick) == (d * tick.den) \div tick.num
SpecCx(h, p) == FloorCell(p.x - h.x_offset, h.x_tick)
SpecCy(h, p) == FloorCell(p.y - h.y_offset, h.y_tick)
\* the step handed a sample to the aggregator
HandedStep == npoints' = npoints + 1
\* data with z added to the cell at 0-based index idx and its count raised by 1
Accumulated(data, idx, z) ==
    [data EXCEPT ![idx + 1] = [point_sum  |-> F64Add(@.point_sum, z),
                               num_points |-> @.num_points + 1]]
\* samples cell i has received
Received(i) == pre[i] + BagSize(zs[i], Len(ZOrder))

\* C2: adding a sample with floor((x - min_x)/x_tick) < x_res and
\* floor((y - min_y)/y_tick) < y_res changes exactly the cell at index
\* (y_res - cy - 1) * x_res + cx: its sum grows by z, its count by 1, and
\* every other cell is unchanged.
C2_AddChangesExactlyOneCell ==
    [][(HandedStep /\ SpecCx(hmi, last_point') < hmi.x_res
                   /\ SpecCy(hmi, last_point') < hmi.y_res)
        => LET idx == (hmi.y_res - SpecCy(hmi, last_point') - 1) * hmi.x_res
                        + SpecCx(hmi, last_point')
           IN  /\ outcome' = "running"
               /\ idx \in 0..(Len(hmi.data) - 1)
               /\ hmi'.data = Accumulated(hmi.data, idx, last_point'.z)]_vars

\* C2 for samples inside the extent only (0 <= cx < x_res, 0 <= cy < y_res)
C2_InsideExtent ==
    [][(HandedStep /\ SpecCx(hmi, last_point') \in 0..(hmi.x_res - 1)
                   /\ SpecCy(hmi, last_point') \in 0..(hmi.y_res - 1))
        => LET idx == (hmi.y_res - SpecCy(hmi, last_point') - 1) * hmi.x_res
                        + SpecCx(hmi, last_point')
           IN  /\ outcome' = "running"
               /\ hmi'.data = Accumulated(hmi.data, idx, last_point'.z)]_vars

\* C2 for samples inside the extent into cells holding fewer than U16Max samples
C2_InsideExtentBelowU16Max ==
    [][(HandedStep /\ SpecCx(hmi, last_point') \in 0..(hmi.x_res - 1)
                   /\ SpecCy(hmi, last_point') \in 0..(hmi.y_res - 1))
        => LET idx == (hmi.y_res - SpecCy(hmi, last_point') - 1) * hmi.x_res
                        + SpecCx(hmi, last_point')
           IN  hmi.data[idx + 1].num_points < U16Max
                 => /\ outcome' = "running"
                    /\ hmi'.data = Accumulated(hmi.data, idx, last_point'.z)]_vars

\* C3: finalizing keeps x_res, y_res and bounds; data[i] is sum/count of cell
\* i when its count > 0 and exactly bounds.min_z when the cell received no
\* sample.
C3_Finalized ==
    outcome = "ok" =>
        /\ hm.x_res = hmi.x_res /\ hm.y_res = hmi.y_res /\ hm.bounds = hmi.bounds
        /\ DOMAIN hm.data = DOMAIN hmi.data
        /\ \A i \in DOMAIN hmi.data :
              /\ hmi.data[i].num_points > 0
                    => hm.data[i] = F64Div(hmi.data[i].point_sum, hmi.data[i].num_points)
              /\ Received(i) = 0 => hm.data[i] = hmi.bounds.min_z

C3_Witness ==
    /\ outcome = "ok"
    /\ \E i \in DOMAIN hmi.data :
          /\ hmi.data[i].num_points > 1
          /\ hm.data[i] # hmi.data[i].point_sum
    /\ \E j \in DOMAIN hmi.data : Received(j) = 0 /\ hm.data[j] = hmi.bounds.min_z

\* C4 as claimed: whatever the order of the adds, every cell holds the sum,
\* count and finalized value that feeding its samples in one fixed
\* (ascending) order gives.
C4_OrderIndependent ==
    outcome # "panic" =>
        \A i \in DOMAIN hmi.data :
            /\ hmi.data[i].num_points = Received(i) % (U16Max + 1)
            /\ hmi.data[i].point_sum = CanonSum(zs[i])
            /\ outcome = "ok" =>
                  hm.data[i] = get_average_or_default(
                      [point_sum |-> CanonSum(zs[i]), num_points |-> hmi.data[i].num_points],
                      hmi.bounds.min_z)

\* C4 amended: the count of every cell is fixed by the multiset; the sum and
\* the finalized value are fixed by it (the exact sum of the heights, and its
\* quotient by the count) in every order in which no f64 addition rounds.
C4_OrderIndependentWhenExact ==
    outcome # "panic" =>
        \A i \in DOMAIN hmi.data :
            /\ hmi.data[i].num_points = Received(i) % (U16Max + 1)
            /\ ~inexact[i] =>
                  /\ hmi.data[i].point_sum = ExactSum(zs[i])
                  /\ outcome = "ok" =>
                        hm.data[i] = get_average_or_default(
                            [point_sum |-> ExactSum(zs[i]),
                             num_points |-> Received(i) % (U16Max + 1)],
                            hmi.bounds.min_z)

C4_Witness ==
    /\ outcome = "ok"
    /\ \E i \in DOMAIN hmi.data :
          /\ ~inexact[i]
          /\ \A z \in ZValues : zs[i][z] > 0
          /\ hm.data[i] # hmi.bounds.min_z

-----------------------------------------------------------------------------
(* Claims about the batch ingestion *)

Done == pc = "done"
ResolutionGiven == res_in[1].some \/ res_in[2].some
SomeFileReadable == \E j \in DOMAIN paths : paths[j].readable
SomeFileUnreadable == \E i \in DOMAIN paths : ~paths[i].readable
EveryFileUnreadable == paths # <<>> /\ \A i \in DOMAIN paths : ~paths[i].readable

\* C1: during ingestion a sample whose cell has cx >= x_res or cy >= y_res is
\* discarded: no aggregate cell changes and the ingestion goes on.
C1_OutOfRangeDiscarded ==
    [][(pc = "points" /\ HandedStep
            /\ (\/ SpecCx(hmi, last_point') >= hmi.x_res
                \/ SpecCy(hmi, last_point') >= hmi.y_res))
        => /\ hmi' = hmi
           /\ outcome' = "running"
           /\ pc' = "points"]_vars

\* C5: with a resolution given, a batch in which some matched file opens and
\* some matched file does not still returns a height grid.
C5_UnreadableFileSkipped ==
    (Done /\ outcome # "panic" /\ ResolutionGiven
          /\ SomeFileReadable /\ SomeFileUnreadable)
        => outcome = "ok" /\ hm # NoHeightMap

\* C6: the call fails with NoValidGlobReturnsError and yields no height grid
\* when the pattern matches no file and when no matched file opens.
C6_NoValidInput ==
    (Done /\ outcome # "PatternError" /\ (paths = <<>> \/ EveryFileUnreadable))
        => outcome = "NoValidGlobReturnsError" /\ hm = NoHeightMap

\* the part of C6 that holds: a pattern that yields no path fails with
\* NoValidGlobReturnsError and yields no height grid
C6_NoPaths ==
    (Done /\ outcome # "PatternError" /\ paths = <<>>)
        => outcome = "NoValidGlobReturnsError" /\ hm = NoHeightMap

-----------------------------------------------------------------------------
(* Claims about the mesh generator *)

Saved == outcome = "ok" /\ call # NoCall
SavedUnmasked == Saved /\ call.fn = "save_as_stl"
SavedMasked == Saved /\ call.fn = "save_as_stl_masked"

\* the mask has the geometry of the grid
SameGeometry(h, m) == h.x_res = m.x_res /\ h.y_res = m.y_res /\ h.bounds = m.bounds

\* the edges of a triangle: pairs of vertex positions
Edges(t) ==
    {{t.vertices[1], t.vertices[2]}, {t.vertices[2], t.vertices[3]},
     {t.vertices[3], t.vertices[1]}}

\* every edge joins two positions and lies on exactly two triangles
Watertight(tris) ==
    LET es == [j \in DOMAIN tris |-> Edges(tris[j])]
    IN  \A j \in DOMAIN tris : \A e \in es[j] :
            /\ Cardinality(e) = 2
            /\ Cardinality({k \in DOMAIN tris : e \in es[k]}) = 2

WithNormal(tris, normal) == Cardinality({k \in DOMAIN tris : tris[k].normal = normal})

\* the quad at (x, y) of a mask: its four corner cells are selected
QuadSelected(m, x, y) ==
    /\ x \in 0..(m.x_res - 2)
    /\ y \in 0..(m.y_res - 2)
    /\ \A c \in {<<x, y>>, <<x + 1, y>>, <<x, y + 1>>, <<x + 1, y + 1>>} :
          m.data[c[2] * m.x_res + c[1] + 1]

QuadCount(m) ==
    Cardinality({q \in (0..(m.x_res - 2)) \X (0..(m.y_res - 2)) : QuadSelected(m, q[1], q[2])})

\* (selected quad, direction) pairs whose neighbouring quad is unselected or off the grid
BoundaryEdgeCount(m) ==
    Cardinality({qd \in ((0..(m.x_res - 2)) \X (0..(m.y_res - 2)))
                          \X {<<1, 0>>, <<-1, 0>>, <<0, 1>>, <<0, -1>>} :
                    /\ QuadSelected(m, qd[1][1], qd[1][2])
                    /\ ~QuadSelected(m, qd[1][1] + qd[2][1], qd[1][2] + qd[2][2])})

\* two selected quads meet at a corner and at nothing else
CornerOnlyTouch(m) ==
    \E x \in 0..(m.x_res - 3), y \in 0..(m.y_res - 3) :
        \/ /\ QuadSelected(m, x, y) /\ QuadSelected(m, x + 1, y + 1)
           /\ ~QuadSelected(m, x + 1, y) /\ ~QuadSelected(m, x, y + 1)
        \/ /\ QuadSelected(m, x + 1, y) /\ QuadSelected(m, x, y + 1)
           /\ ~QuadSelected(m, x, y) /\ ~QuadSelected(m, x + 1, y + 1)

\* the mask selects one 2x2 block of cells off the border of the grid
InteriorBlock(m) ==
    \E x0 \in 1..(m.x_res - 3), y0 \in 1..(m.y_res - 3) :
        m.data = MaskOf(m.x_res, m.y_res,
                   {y * m.x_res + x : x \in x0..(x0 + 1), y \in y0..(y0 + 1)}).data

FlatZero3x3 ==
    /\ hm.x_res = 3 /\ hm.y_res = 3
    /\ \A i \in DOMAIN hm.data : hm.data[i] = 0
    /\ call.z_scaling = 1 /\ call.base_thickness = 0

\* C7: save_as_stl of a grid with x_res >= 2 and y_res >= 2 emits
\* 4(x_res-1)(y_res-1) + 4(x_res-1) + 4(y_res-1) triangles: two top and two
\* bottom per quad, two per quad edge on each of the four sides.
C7_UnmaskedTriangleCount ==
    (SavedUnmasked /\ hm.x_res >= 2 /\ hm.y_res >= 2) =>
        LET t == file.triangles
            quads == (hm.x_res - 1) * (hm.y_res - 1)
        IN  /\ Len(t) = 4 * quads + 4 * (hm.x_res - 1) + 4 * (hm.y_res - 1)
            /\ WithNormal(t, <<0, 0, 1>>) = 2 * quads
            /\ WithNormal(t, <<0, 0, -1>>) = 2 * quads
            /\ WithNormal(t, <<0, 1, 0>>) = 2 * (hm.x_res - 1)
            /\ WithNormal(t, <<0, -1, 0>>) = 2 * (hm.x_res - 1)
            /\ WithNormal(t, <<1, 0, 0>>) = 2 * (hm.y_res - 1)
            /\ WithNormal(t, <<-1, 0, 0>>) = 2 * (hm.y_res - 1)

C7_Witness ==
    /\ SavedUnmasked
    /\ hm.x_res >= 2 /\ hm.y_res > hm.x_res
    /\ Len(file.triangles) = 4 * (hm.x_res - 1) * (hm.y_res - 1)
                               + 4 * (hm.x_res - 1) + 4 * (hm.y_res - 1)

C10_MaskedTriangleCount ==
    (SavedMasked /\ SameGeometry(hm, mask)) =>
        /\ Len(file.triangles) = 4 * QuadCount(mask) + 2 * BoundaryEdgeCount(mask)
        /\ (<<hm.x_res, hm.y_res>> = StlBigSize /\ InteriorBlock(mask))
              => Len(file.triangles) = 12

C10_Witness ==
    /\ SavedMasked /\ SameGeometry(hm, mask)
    /\ <<hm.x_res, hm.y_res>> = StlBigSize
    /\ InteriorBlock(mask)
    /\ Len(file.triangles) = 12

\* the call was save_as_stl_masked
CalledMasked == call # NoCall /\ call.fn = "save_as_stl_masked"

\* no mesh was written: the path holds what it held before the call
NoMeshWritten == file \in {NoFile, SomeOtherFile}

\* C11: when a wall flagged by the boundary scan has an absent corner vertex
\* (the wall is reported and skipped, counted in log_errors), the call fails
\* with StlSideFaceGenerationError and writes no mesh.
C11_AbsentWallCornerFails ==
    (CalledMasked /\ log_errors > 0)
        => (outcome = "StlSideFaceGenerationError" /\ NoMeshWritten)

\* C12: save_as_stl_masked with a mask whose x_res, y_res or bounds differ
\* from the grid's fails with the geometry-mismatch error and writes no mesh.
C12_MismatchedMaskFails ==
    (CalledMasked /\ ~SameGeometry(hm, mask))
        => (outcome = "MaskBoundMismatchError" /\ NoMeshWritten)

\* the step is a call of fn
Calling(fn) == outcome = "running" /\ call' # NoCall /\ call'.fn = fn

\* C13: a save call made while a file exists at the path does not succeed and
\* leaves the file as it was; the failure is the io error of create_new
\* whenever the faces were generated without error.
C13_ExistingFileKept ==
    [][((Calling("save_as_stl") \/ Calling("save_as_stl_masked")) /\ file # NoFile)
          => /\ outcome' # "ok"
             /\ file' = file
             /\ (call'.fn = "save_as_stl" \/ SameGeometry(hm, mask'))
                   => outcome' = "IoError"]_vars

C13_Witness ==
    /\ call # NoCall
    /\ outcome = "IoError"
    /\ file = SomeOtherFile

-----------------------------------------------------------------------------
(* Claims about the masks *)


\* the call made was fn
Called(fn) == call # NoCall /\ call.fn = fn

AllFalse(m) == \A i \in 1..Len(m.data) : ~m.data[i]

\* C14: offset_by_mask with a mask of the grid's x_res, y_res and bounds adds
\* the offset to exactly the heights whose mask cell is true and leaves the
\* other heights, the resolutions and the bounds as they were; with another
\* geometry it returns MaskBoundMismatchError and leaves the grid as it was.
C14_OffsetByMask ==
    [][Calling("offset_by_mask") =>
          IF SameGeometry(hm, mask)
          THEN /\ outcome' = "ok"
               /\ Len(hm'.data) = Len(hm.data)
               /\ \A i \in 1..Len(hm.data) :
                     hm'.data[i] = IF mask.data[i]
                                   THEN F64Round(hm.data[i] + call'.offset)
                                   ELSE hm.data[i]
               /\ hm'.x_res = hm.x_res /\ hm'.y_res = hm.y_res
               /\ hm'.bounds = hm.bounds
          ELSE outcome' = "MaskBoundMismatchError" /\ hm' = hm]_vars

C14_Witness ==
    /\ Called("offset_by_mask")
    /\ outcome = "ok"
    /\ \E i, j \in 1..Len(mask.data) : mask.data[i] /\ ~mask.data[j]
    /\ \E i \in 1..Len(hm.data) : hm.data[i] # (i - 1) % 2

CheckedCombinators ==
    {"checked_bitor_assign", "checked_bitand_assign",
     "checked_bitxor_assign", "checked_sub_assign"}

UncheckedCombinators ==
    {"bitor_assign", "bitand_assign", "bitxor_assign", "sub_assign"}

\* what a combinator makes of a cell a of the receiver and a cell b of the other mask
CellOf(fn, a, b) ==
    CASE fn \in {"checked_bitor_assign", "bitor_assign"} -> a \/ b
      [] fn \in {"checked_bitand_assign", "bitand_assign"} -> a /\ b
      [] fn \in {"checked_bitxor_assign", "bitxor_assign"} -> a # b
      [] fn \in {"checked_sub_assign", "sub_assign"} -> a /\ ~b

\* C15: a checked combinator returns MaskBoundMismatchError and leaves the
\* data of the receiver as it was when the other mask differs in x_res, y_res
\* or bounds; when all three match it combines the cells at every index.
C15_CheckedCombinators ==
    [][(outcome = "running" /\ call' # NoCall /\ call'.fn \in CheckedCombinators) =>
          IF SameGeometry(mask, call'.other_mask)
          THEN /\ outcome' = "ok"
               /\ Len(mask'.data) = Len(mask.data)
               /\ \A i \in 1..Len(mask.data) :
                     mask'.data[i] = CellOf(call'.fn, mask.data[i], call'.other_mask.data[i])
          ELSE outcome' = "MaskBoundMismatchError" /\ mask'.data = mask.data]_vars

C15_Witness ==
    /\ call # NoCall /\ call.fn \in CheckedCombinators
    /\ outcome = "MaskBoundMismatchError"
    /\ call.other_mask.x_res = mask.x_res /\ call.other_mask.y_res = mask.y_res
    /\ call.other_mask.bounds # mask.bounds

\* C16: an unchecked combinator given a mask whose x_res or y_res differs
\* from the receiver's does not combine the two data arrays: the data of the
\* receiver stay as they were.
C16_UncheckedComparesResolution ==
    [][(/\ outcome = "running" /\ call' # NoCall /\ call'.fn \in UncheckedCombinators
        /\ (call'.other_mask.x_res # mask.x_res \/ call'.other_mask.y_res # mask.y_res))
          => mask'.data = mask.data]_vars

\* C17: for a mask A and a copy of it, union(A, A) is A, intersect(A,
\* invert(A)) is all-false, xor(A, A) is all-false and difference(A, A) is
\* all-false.
C17_SetAlgebra ==
    [][(outcome = "running" /\ call' # NoCall) =>
          /\ (call'.fn = "checked_bitor_assign" /\ call'.other_mask = mask)
                => (outcome' = "ok" /\ mask' = mask)
          /\ (call'.fn = "checked_bitand_assign" /\ call'.other_mask = invert(mask))
                => (outcome' = "ok" /\ AllFalse(mask'))
          /\ (call'.fn \in {"checked_bitxor_assign", "checked_sub_assign"}
                  /\ call'.other_mask = mask)
                => (outcome' = "ok" /\ AllFalse(mask'))]_vars

C17_Witness ==
    /\ Called("checked_bitand_assign")
    /\ outcome = "ok"
    /\ AllFalse(mask)
    /\ \E i, j \in 1..Len(mask.data) : call.other_mask.data[i] /\ ~call.other_mask.data[j]

\* the cells (x + dx, y + dy) of the deltas that are in range of m
InRangeTargets(m, x, y, deltas) ==
    {t \in {<<x + deltas[k][1], y + deltas[k][2]>> : k \in 1..Len(deltas)} :
        /\ 0 <= t[1] /\ t[1] < m.x_res
        /\ 0 <= t[2] /\ t[2] < m.y_res}

Disk(r) == {d \in ((-r)..r) \X ((-r)..r) : (d[1] * d[1]) + (d[2] * d[2]) <= r * r}

\* C19: for every radius r get_point_deltas_within_radius(r) returns the
\* offsets (dx, dy) with dx^2 + dy^2 <= r^2, each of them once.
C19_DeltasAreTheDisk ==
    Called("get_point_deltas_within_radius") =>
        /\ outcome = "ok"
        /\ {point_deltas[k] : k \in 1..Len(point_deltas)} = Disk(call.radius)
        /\ Len(point_deltas) = Cardinality(Disk(call.radius))

\* the column and row of a corner of the polygon
CornerCell(m, easting, northing) ==
    get_x_y_coords(easting, northing, m.bounds.min_x, m.bounds.min_y,
                   MaskTicks(m).x, MaskTicks(m).y)

\* C20: add_filled_utm_polygon fails with PolygonOutOfBoundsError when the
\* bounding rectangle of the polygon maps to a column >= x_res or a row >=
\* y_res; otherwise it returns Ok, changes only cells in range inside the
\* rectangle, and clears no cell.
C20_PolygonWithinMask ==
    [][(Calling("add_filled_utm_polygon") /\ ~call'.utm_region.empty) =>
          LET lo == CornerCell(mask, call'.utm_region.min_x, call'.utm_region.min_y)
              hi == CornerCell(mask, call'.utm_region.max_x, call'.utm_region.max_y)
          IN  IF hi[1] >= mask.x_res \/ hi[2] >= mask.y_res
              THEN outcome' = "PolygonOutOfBoundsError" /\ mask' = mask
              ELSE /\ outcome' = "ok"
                   /\ \A cx \in 0..(mask.x_res - 1), cy \in 0..(mask.y_res - 1) :
                         LET i == (cy * mask.x_res) + cx + 1
                         IN  /\ mask.data[i] => mask'.data[i]
                             /\ (mask'.data[i] # mask.data[i]) =>
                                   (/\ lo[1] <= cx /\ cx <= hi[1]
                                    /\ lo[2] <= cy /\ cy <= hi[2])]_vars

-----------------------------------------------------------------------------
(* Claims about the counter of a cell *)

\* the sample lies inside the extent of the aggregator
InsideExtent(h, p) ==
    /\ SpecCx(h, p) \in 0..(h.x_res - 1)
    /\ SpecCy(h, p) \in 0..(h.y_res - 1)

\* C27: after n add_sample calls on a cell, n > 65535 included, the count of
\* the cell is n and its finalized value is sum / n; no add of a sample inside
\* the extent aborts.
C27_CounterCountsEverySample ==
    /\ \A i \in DOMAIN hmi.data : hmi.data[i].num_points = Received(i)
    /\ outcome = "panic" => ~InsideExtent(hmi, last_point)
    /\ outcome = "ok" =>
          \A i \in DOMAIN hmi.data :
              Received(i) > 0 => hm.data[i] = F64Div(hmi.data[i].point_sum, Received(i))

-----------------------------------------------------------------------------
(* Claims about the integer types of the disk computation *)

\* C29: for every radius, 2*radius+1, its square, radius^2+1 and dx^2+dy^2
\* stay within their 16-bit types: the call does not abort on an overflow and
\* returns no offset that only a wrapped sum of squares puts within the radius.
C29_DiskStaysWithin16Bits ==
    Called("get_point_deltas_within_radius") =>
        /\ outcome # "panic"
        /\ \A k \in 1..Len(point_deltas) :
              (point_deltas[k][1] * point_deltas[k][1])
                + (point_deltas[k][2] * point_deltas[k][2]) <= call.radius * call.radius

-----------------------------------------------------------------------------
(* Claims about the walls, the helper mask and the winding of the mesh *)

\* the mask has the resolution of the grid
SameResolution(h, m) == h.x_res = m.x_res /\ h.y_res = m.y_res

\* C24: for a mask of the grid's resolution no wall that the four boundary
\* scans flag has an absent corner vertex or an index out of range: nothing is
\* logged and the faces are generated without error.
C24_WallVerticesExist ==
    (CalledMasked /\ SameResolution(hm, mask)) =>
        /\ log_errors = 0
        /\ outcome \in {"ok", "IoError"}

C24_Witness ==
    /\ SavedMasked /\ SameResolution(hm, mask)
    /\ log_errors = 0
    /\ \E i \in 1..Len(mask.data) : ~mask.data[i]
    /\ BoundaryEdgeCount(mask) > 4
    /\ WithNormal(file.triangles, <<1, 0, 0>>) > 2

\* the triangles of tris with that normal over the quad at (x, y)
QuadTriangles(tris, x, y, normal) ==
    Cardinality({k \in DOMAIN tris :
                    /\ tris[k].normal = normal
                    /\ \A j \in 1..3 : /\ tris[k].vertices[j][1] \in {x, x + 1}
                                       /\ tris[k].vertices[j][2] \in {y, y + 1}})

\* C25: for every quad (x, y) with x < x_res - 1 and y < y_res - 1 the helper
\* mask is true at (x, y) iff the mask cells (x, y), (x+1, y), (x, y+1) and
\* (x+1, y+1) are all true, and save_as_stl_masked (given a mask of the grid's
\* resolution) emits the two top and the two bottom triangles of exactly
\* those quads.
C25_HelperIsFourCells ==
    (SavedMasked /\ SameResolution(hm, mask)) =>
        \A x \in 0..(mask.x_res - 2), y \in 0..(mask.y_res - 2) :
            LET four == /\ mask.data[(y * mask.x_res) + x + 1]
                        /\ mask.data[(y * mask.x_res) + x + 2]
                        /\ mask.data[((y + 1) * mask.x_res) + x + 1]
                        /\ mask.data[((y + 1) * mask.x_res) + x + 2]
            IN  /\ HelperGetOrFalse(StlHelperMaskFrom(mask), x, y) = four
                /\ QuadTriangles(file.triangles, x, y, <<0, 0, 1>>) = IF four THEN 2 ELSE 0
                /\ QuadTriangles(file.triangles, x, y, <<0, 0, -1>>) = IF four THEN 2 ELSE 0

C25_Witness ==
    /\ SavedMasked /\ SameResolution(hm, mask)
    /\ \E x \in 0..(mask.x_res - 2), y \in 0..(mask.y_res - 2) :
          /\ QuadSelected(mask, x, y)
          /\ QuadTriangles(file.triangles, x, y, <<0, 0, 1>>) = 2
    /\ \E x \in 0..(mask.x_res - 2), y \in 0..(mask.y_res - 2) :
          /\ ~QuadSelected(mask, x, y)
          /\ mask.data[(y * mask.x_res) + x + 1]
          /\ QuadTriangles(file.triangles, x, y, <<0, 0, 1>>) = 0

\* (b - a) x (c - a) . n: positive when a, b, c run counter-clockwise seen
\* from the side n points to
Winding(t) ==
    LET a == t.vertices[1]
        u == [j \in 1..3 |-> t.vertices[2][j] - a[j]]
        v == [j \in 1..3 |-> t.vertices[3][j] - a[j]]
    IN  (((u[2] * v[3]) - (u[3] * v[2])) * t.normal[1])
          + (((u[3] * v[1]) - (u[1] * v[3])) * t.normal[2])
          + (((u[1] * v[2]) - (u[2] * v[1])) * t.normal[3])

\* every top vertex of the call lies above the bottom
PositiveTops ==
    \A i \in 1..Len(hm.data) :
        TopVertex(hm, i - 1, ZScaleFactor(hm, call.z_scaling), call.base_thickness)[3] > 0

\* C26: in the mesh of save_as_stl with positive top heights the vertex order
\* of every triangle agrees with its normal under the right-hand rule.
C26_WindingAgreesWithNormal ==
    (SavedUnmasked /\ PositiveTops) =>
        \A k \in DOMAIN file.triangles : Winding(file.triangles[k]) > 0

\* the step handed a sample by the two-step path
ByIndexStep == HandedStep /\ "index" \in DOMAIN last_point'

\* C30: for a sample whose cell is in range, add_point_by_index(p.z,
\* get_index(p)) leaves the aggregate as add_point(p) leaves it; and an index
\* that is not a position in data (index >= x_res*y_res) is discarded: no
\* panic, no cell changed.
C30_ByIndexMatchesAddPoint ==
    [][ByIndexStep
        => LET p == last_point'
               direct == add_point(hmi, p, build)
           IN  /\ (InsideExtent(hmi, p) /\ ~direct.panic)
                     => (outcome' = "running" /\ hmi' = direct.val)
               /\ p.index >= hmi.x_res * hmi.y_res
                     => (outcome' = "running" /\ hmi' = hmi)]_vars

\* C30, first half only: in-range samples reach the cell add_point uses
C30_SameCell ==
    [][ByIndexStep
        => LET p == last_point'
               direct == add_point(hmi, p, build)
           IN  (InsideExtent(hmi, p) /\ ~direct.panic)
                     => (outcome' = "running" /\ hmi' = direct.val)]_vars

\* C30, second half only: an index past the end of data is discarded
C30_InvalidIndexDiscarded ==
    [][ByIndexStep
        => (last_point'.index >= hmi.x_res * hmi.y_res
               => (outcome' = "running" /\ hmi' = hmi))]_vars

\* C22: for x < x_res and y < y_res, x_y_to_index returns y*x_res + x, which
\* lies in 0..x_res*y_res-1, is inverted by (index mod x_res, index div
\* x_res) and is the index of no other cell of the grid; get_height then
\* returns the height stored there.  For x >= x_res or y >= y_res the result
\* is the index error.
C22_IndexIsRowMajor ==
    Called("get_height") =>
        IF call.x < hm.x_res /\ call.y < hm.y_res
        THEN /\ outcome = "ok"
             /\ ret.index = call.y * hm.x_res + call.x
             /\ ret.index \in 0..(hm.x_res * hm.y_res - 1)
             /\ ret.index % hm.x_res = call.x
             /\ ret.index \div hm.x_res = call.y
             /\ \A c \in (0..(hm.x_res - 1)) \X (0..(hm.y_res - 1)) :
                   x_y_to_index(hm.x_res, hm.y_res, c[1], c[2]) = ret.index
                       => c = <<call.x, call.y>>
             /\ ret.height = hm.data[ret.index + 1]
        ELSE outcome = "BadIndexError" /\ ret = NoRet

\* the last cell of a grid with several rows and columns was read, and a
\* column past the end of an inner row was refused
C22_Witness ==
    /\ Called("get_height")
    /\ hm.x_res > 1 /\ hm.y_res > 1
    /\ call.x = hm.x_res - 1 /\ call.y = hm.y_res - 1
    /\ outcome = "ok"
    /\ ret.index = hm.x_res * hm.y_res - 1

\* the aggregator of the geometry of mask m, and the sample at a coordinate
AggregatorLike(m) == HeightMapIntermediateNew(m.x_res, m.y_res, m.bounds)
SampleAt(utm_coord) == [x |-> utm_coord[1], y |-> utm_coord[2], z |-> 1]

\* the coordinate lies in the rectangle of the bounds
WithinBounds(b, utm_coord) ==
    /\ b.min_x <= utm_coord[1] /\ utm_coord[1] <= b.max_x
    /\ b.min_y <= utm_coord[2] /\ utm_coord[2] <= b.max_y

\* C23: a mask and an aggregator of the same x_res, y_res and bounds share
\* one grid: for a coordinate inside the extent, add_utm_point with radius 0
\* marks exactly the cell whose index is the one where add_point_unchecked
\* accumulates a sample at that coordinate.
C23_MaskSharesGridSpace ==
    [][(Calling("add_utm_point") /\ call'.radius = 0
           /\ WithinBounds(mask.bounds, call'.utm_coord)
           /\ InsideExtent(AggregatorLike(mask), SampleAt(call'.utm_coord)))
        => LET h == AggregatorLike(mask)
               r == add_point_unchecked(h, SampleAt(call'.utm_coord), build)
           IN  /\ outcome' = "ok"
               /\ ~r.panic
               /\ \A i \in DOMAIN mask.data :
                     mask'.data[i] = (mask.data[i] \/ r.val.data[i].num_points = 1)]_vars

\* C23 up to the direction of the rows: the mask marks the cell of the same
\* column in the mirrored row
C23_MirroredRow ==
    [][(Calling("add_utm_point") /\ call'.radius = 0
           /\ WithinBounds(mask.bounds, call'.utm_coord)
           /\ InsideExtent(AggregatorLike(mask), SampleAt(call'.utm_coord)))
        => LET h == AggregatorLike(mask)
               r == add_point_by_index(h, 1, get_index(h, SampleAt(call'.utm_coord)), build)
           IN  /\ outcome' = "ok"
               /\ ~r.panic
               /\ \A i \in DOMAIN mask.data :
                     mask'.data[i] = (mask.data[i] \/ r.val.data[i].num_points = 1)]_vars

\* interpolation fails at a resampled position of the trail
InterpolationFails(c) ==
    \E i \in 0..c.target_num_points :
        line_interpolate_point(c.utm_trail, i, c.target_num_points) = <<>>

\* C21: when interpolation fails at a resampled position of the trail,
\* add_utm_trail returns an error; it does not skip the position and succeed.
C21_DegenerateTrailFails ==
    (Called("add_utm_trail") /\ InterpolationFails(call)) => outcome # "ok"

\* exactly one of the two resolutions was given
OneResolutionGiven == res_in[1].some # res_in[2].some

\* C28: when glob_get_height_map succeeds with exactly one resolution given
\* over an extent with positive x and y ranges, the other resolution is
\* trunc(given * other_range / given_range), and the grid has positive x_res
\* and y_res, finite positive ticks range/(res - 1) and x_res * y_res cells.
C28_DerivedGridIsValid ==
    (Done /\ outcome = "ok" /\ OneResolutionGiven
          /\ x_range(global_bounds) > 0 /\ y_range(global_bounds) > 0)
        => LET xr == x_range(global_bounds)
               yr == y_range(global_bounds)
           IN  /\ res_in[1].some
                     => (hm.x_res = res_in[1].v /\ hm.y_res = (res_in[1].v * yr) \div xr)
               /\ res_in[2].some
                     => (hm.y_res = res_in[2].v /\ hm.x_res = (res_in[2].v * xr) \div yr)
               /\ hm.x_res > 0 /\ hm.y_res > 0
               /\ Tick(xr, hm.x_res).den > 0 /\ Tick(xr, hm.x_res).num > 0
               /\ Tick(yr, hm.y_res).den > 0 /\ Tick(yr, hm.y_res).num > 0
               /\ Len(hm.data) = hm.x_res * hm.y_res

\* C28 without the ticks: the derived resolution, and the number of cells
C28_DerivedResolution ==
    (Done /\ outcome = "ok" /\ OneResolutionGiven
          /\ x_range(global_bounds) > 0 /\ y_range(global_bounds) > 0)
        => LET xr == x_range(global_bounds)
               yr == y_range(global_bounds)
           IN  /\ res_in[1].some
                     => (hm.x_res = res_in[1].v /\ hm.y_res = (res_in[1].v * yr) \div xr)
               /\ res_in[2].some
                     => (hm.y_res = res_in[2].v /\ hm.x_res = (res_in[2].v * xr) \div yr)
               /\ hm.x_res > 0 /\ hm.y_res > 0
               /\ Len(hm.data) = hm.x_res * hm.y_res

=============================================================================
